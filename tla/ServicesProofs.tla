---------------------------- MODULE ServicesProofs ----------------------------
(***************************************************************************)
(* What holds of the services that share no table for any number of        *)
(* requests in progress and any sizes: accounts and logins, histories of   *)
(* hands, training at a table, the sessions of the trainer and the         *)
(* versions of a strategy.  Each is looked at by itself, as an execution   *)
(* of MCServices does.                                                     *)
(***************************************************************************)
EXTENDS Accounts, StrategyAdmin, Trainer, TableTraining, HandHistory,
        FiniteSetTheorems, WellFoundedInduction, TLAPS

-----------------------------------------------------------------------------
(* Sequences and requests *)

\* A row is added at the end, and the others keep their numbers.
LEMMA AppendIs ==
  ASSUME NEW S, NEW s \in Seq(S), NEW e \in S
  PROVE  /\ Append(s, e) \in Seq(S)
         /\ Len(Append(s, e)) = Len(s) + 1
         /\ DOMAIN s = 1 .. Len(s) /\ Len(s) \in Nat
         /\ DOMAIN Append(s, e) = (DOMAIN s) \cup {Len(s) + 1}
         /\ Len(s) + 1 \notin DOMAIN s
         /\ Append(s, e)[Len(s) + 1] = e
         /\ \A i \in DOMAIN s : Append(s, e)[i] = s[i]
  OBVIOUS

CallsAreAFunction == calls = [h \in Handlers |-> calls[h]]

\* At first no request is under way.
LEMMA FirstCalls ==
  ASSUME ServerInit
  PROVE  CallsAreAFunction /\ \A h \in Handlers : calls[h] = Idle
  BY Zenon DEF ServerInit, CallsAreAFunction

\* A request moves on or ends, and the others stay where they are.
LEMMA OneCallChanges ==
  ASSUME CallsAreAFunction, NEW h \in Handlers, NEW c, Continue(h, c)
  PROVE  /\ CallsAreAFunction'
         /\ calls'[h] = c
         /\ \A g \in Handlers \ {h} : calls'[g] = calls[g]
  BY Zenon DEF CallsAreAFunction, Continue

-----------------------------------------------------------------------------
(* Accounts *)

accountVars == <<calls, accountRows>>

AccountsSpec == ServerInit /\ AccountsInit /\ [][AccountsNext]_accountVars

\* A row of the store is a browser's, and so is the news that it is gone.
LoginsInv ==
  /\ logins = [b \in Browsers |-> logins[b]]
  /\ loggedOut \subseteq Browsers
  /\ LoggedOutStaysOut

\* One row of the store is written.
LEMMA OneLoginChanges ==
  ASSUME LoginsInv, NEW b, NEW a, logins' = [logins EXCEPT ![b] = a],
         loggedOut' \subseteq Browsers,
         \A x \in loggedOut' : IF x = b THEN a = NoAccount ELSE x \in loggedOut
  PROVE  LoginsInv'
<1>1. logins' = [x \in Browsers |-> logins'[x]]
  BY Zenon DEF LoginsInv
<1>2. \A x \in Browsers : logins'[x] = IF x = b THEN a ELSE logins[x]
  BY Zenon DEF LoginsInv
<1>3. ASSUME NEW x \in loggedOut' PROVE logins'[x] = NoAccount
  BY <1>2 DEF LoginsInv, LoggedOutStaysOut
<1> QED
  BY <1>1, <1>3 DEF LoginsInv, LoggedOutStaysOut

\* A browser that was told it is logged out stays so until it logs in again,
\* whatever requests were under way with its session (logout; resave is off).
THEOREM LogoutIsFinal == AccountsSpec => []LoggedOutStaysOut
<1>1. AccountsInit => LoginsInv
  BY DEF AccountsInit, LoginsInv, LoggedOutStaysOut
<1>2. LoginsInv /\ [AccountsNext]_accountVars => LoginsInv'
  <2> SUFFICES ASSUME LoginsInv, [AccountsNext]_accountVars PROVE LoginsInv'
    OBVIOUS
  <2>1. CASE UNCHANGED <<logins, loggedOut>>
    BY <2>1 DEF LoginsInv, LoggedOutStaysOut
  <2>2. ASSUME NEW h \in Handlers, LoginDone(h)
        PROVE  LoginsInv'
    <3>1. /\ logins' = [logins EXCEPT ![calls[h].browser] = calls[h].account]
          /\ loggedOut' = loggedOut \ {calls[h].browser}
      BY <2>2 DEF LoginDone
    <3>2. PICK b, a : b = calls[h].browser /\ a = calls[h].account
      OBVIOUS
    <3> QED
      BY <3>1, <3>2, OneLoginChanges DEF LoginsInv
  <2>3. ASSUME NEW b \in Browsers, Logout(b)
        PROVE  LoginsInv'
    <3>1. logins' = [logins EXCEPT ![b] = NoAccount] /\ loggedOut' = loggedOut \cup {b}
      BY <2>3 DEF Logout
    <3> QED
      BY <3>1, OneLoginChanges DEF LoginsInv
  <2>4. ASSUME NEW b \in Browsers, Expire(b)
        PROVE  LoginsInv'
    <3>1. logins' = [logins EXCEPT ![b] = NoAccount] /\ loggedOut' = loggedOut
      BY <2>4 DEF Expire
    <3> QED
      BY <3>1, OneLoginChanges DEF LoginsInv
  <2>5. ASSUME NEW h \in Handlers,
               \/ \E email \in Emails, name \in Names : Register(h, email, name)
               \/ CreateAccount(h)
               \/ \E b \in Browsers, a \in DOMAIN accounts : Login(h, b, a)
               \/ \E b \in Browsers, name \in Names : Rename(h, b, name)
               \/ RenameDone(h)
        PROVE  UNCHANGED <<logins, loggedOut>>
    BY <2>5 DEF Register, CreateAccount, Login, Rename, RenameDone, Stored, accountRows
  <2>6. CASE UNCHANGED accountVars
    BY <2>1, <2>6 DEF accountVars, accountRows
  <2> QED
    BY <2>1, <2>2, <2>3, <2>4, <2>5, <2>6 DEF AccountsNext
<1>3. LoginsInv => LoggedOutStaysOut
  BY DEF LoginsInv
<1> QED
  BY <1>1, <1>2, <1>3, PTL DEF AccountsSpec


-----------------------------------------------------------------------------
(* Histories of hands *)

historyVars == <<calls, historyRows>>

HistorySpec == ServerInit /\ HistoryInit /\ [][HistoryNext]_historyVars

Numbers == SUBSET (1 .. MaxNumber)
History == [source : Sources, numbers : Numbers, listed : SUBSET Authors, opened : SUBSET Authors]

HistoriesTyped == histories \in Seq(History)

\* A request that will insert a hand has read its actions.
InsertsTyped ==
  \A h \in Handlers :
    calls[h].op = "insert" => calls[h].source \in Sources /\ calls[h].numbers \in Numbers

\* The unique index: one history of a hand.
OneCopy == \A i, j \in DOMAIN histories : histories[i].source = histories[j].source => i = j

\* Who may list a hand may open it: both are taken away together.
ListedIsOpened == \A i \in DOMAIN histories : histories[i].listed = histories[i].opened

\* A hand whose player was told that it is removed has a history, so it is not
\* inserted again, and the player has no part in that one.
RemovalsHold ==
  /\ \A r \in removals : \E i \in DOMAIN histories : histories[i].source = r.source
  /\ \A r \in removals : \A i \in DOMAIN histories :
       histories[i].source = r.source => r.user \notin histories[i].listed

HistoryInv ==
  CallsAreAFunction /\ HistoriesTyped /\ InsertsTyped /\ OneCopy /\ ListedIsOpened /\ RemovalsHold

\* What is hidden from the list and the details is hidden from the analytics.
LEMMA RemovedIsHidden ==
  ASSUME HistoryInv
  PROVE  RemovedStaysHidden
<1>1. ASSUME NEW r \in removals, NEW i \in Copies(r.source)
      PROVE  i \notin ListFor(r.user) \cup OpenedFor(r.user) \cup RelatedHands(r.user)
  <2>1. i \in DOMAIN histories /\ histories[i].source = r.source
    BY DEF Copies
  <2>2. r.user \notin histories[i].listed /\ r.user \notin histories[i].opened
    BY <2>1 DEF HistoryInv, RemovalsHold, ListedIsOpened
  <2> QED
    BY <2>2 DEF ListFor, OpenedFor, RelatedHands, AnalyticsOf
<1>2. ASSUME NEW u \in Authors, NEW i \in RelatedHands(u)
      PROVE  i \in OpenedFor(u)
  BY DEF RelatedHands, AnalyticsOf, ListFor, OpenedFor, HistoryInv, ListedIsOpened
<1> QED
  BY <1>1, <1>2 DEF RemovedStaysHidden

\* A hand is inserted once, and never after somebody had it removed.
LEMMA InsertKeeps ==
  ASSUME HistoryInv, NEW h \in Handlers, InsertHistory(h)
  PROVE  HistoryInv'
<1> DEFINE c == calls[h]
           new == [source |-> c.source, numbers |-> c.numbers,
                   listed |-> Authors, opened |-> Authors]
<1>1. CallsAreAFunction' /\ InsertsTyped'
  <2>1. Continue(h, Idle)
    BY DEF InsertHistory, Finish
  <2>2. CallsAreAFunction' /\ \A g \in Handlers : calls'[g] = Idle \/ calls'[g] = calls[g]
    BY <2>1, OneCallChanges DEF HistoryInv
  <2>3. Idle.op = "idle"
    BY DEF Idle
  <2> QED
    BY <2>2, <2>3 DEF HistoryInv, InsertsTyped
<1>2. c.source \in Sources /\ c.numbers \in Numbers
  BY DEF InsertHistory, HistoryInv, InsertsTyped
<1>3. removals' = removals
  BY DEF InsertHistory
<1>4. CASE histories' = histories
  BY <1>1, <1>3, <1>4 DEF HistoryInv, HistoriesTyped, OneCopy, ListedIsOpened, RemovalsHold
<1>5. CASE histories' = Append(histories, new) /\ Copies(c.source) = {}
  <2>1. new \in History /\ new.source = c.source /\ new.listed = new.opened
    BY <1>2 DEF History
  <2>2. \A i \in DOMAIN histories : histories[i].source # c.source
    BY <1>5 DEF Copies
  <2> DEFINE n == Len(histories) + 1
  <2> HIDE DEF new
  <2>3. /\ histories' \in Seq(History)
        /\ DOMAIN histories' = (DOMAIN histories) \cup {n} /\ n \notin DOMAIN histories
        /\ histories'[n] = new /\ \A i \in DOMAIN histories : histories'[i] = histories[i]
    BY <1>5, <2>1, AppendIs DEF HistoryInv, HistoriesTyped
  <2> HIDE DEF c, n
  <2>4. OneCopy' /\ ListedIsOpened'
    BY <2>1, <2>2, <2>3 DEF HistoryInv, OneCopy, ListedIsOpened
  <2>5. RemovalsHold'
    <3>1. \A r \in removals : r.source # c.source
      BY <2>2 DEF HistoryInv, RemovalsHold
    <3> QED
      BY <1>3, <2>1, <2>3, <3>1 DEF HistoryInv, RemovalsHold
  <2> QED
    BY <1>1, <2>3, <2>4, <2>5 DEF HistoryInv, HistoriesTyped
<1> QED
  BY <1>4, <1>5 DEF InsertHistory, MayInsert

\* A player gives up its part in the only history of the hand.
LEMMA ForgetKeeps ==
  ASSUME HistoryInv, NEW u \in Authors, NEW i \in DOMAIN histories, Forget(u, i)
  PROVE  HistoryInv'
<1>1. CallsAreAFunction' /\ InsertsTyped'
  BY DEF Forget, HistoryInv, CallsAreAFunction, InsertsTyped
<1> DEFINE row == Forgotten(histories[i], u)
<1>2. histories[i] \in History
  BY DEF HistoryInv, HistoriesTyped
<1>3. /\ row \in History /\ row.source = histories[i].source
      /\ row.listed = histories[i].listed \ {u} /\ row.opened = histories[i].opened \ {u}
  BY <1>2 DEF Forgotten, History
<1>4. histories' = [histories EXCEPT ![i] = row]
  BY DEF Forget
<1> HIDE DEF row
<1>5. /\ histories' \in Seq(History) /\ DOMAIN histories' = DOMAIN histories
      /\ histories'[i] = row
      /\ \A j \in DOMAIN histories : j # i => histories'[j] = histories[j]
  BY <1>3, <1>4 DEF HistoryInv, HistoriesTyped
<1>6. OneCopy' /\ ListedIsOpened'
  BY <1>3, <1>5 DEF HistoryInv, OneCopy, ListedIsOpened
<1>7. \A j \in DOMAIN histories :
        /\ histories'[j].source = histories[j].source
        /\ histories'[j].listed \subseteq histories[j].listed
  BY <1>3, <1>5
<1>8. removals' = removals \cup {[source |-> histories[i].source, user |-> u]}
  BY DEF Forget
<1>9. RemovalsHold'
  <2>1. ASSUME NEW r \in removals'
        PROVE  /\ \E j \in DOMAIN histories : histories[j].source = r.source
               /\ \A j \in DOMAIN histories :
                    histories[j].source = r.source => r.user \notin histories'[j].listed
    <3>1. CASE r \in removals
      BY <1>7, <3>1 DEF HistoryInv, RemovalsHold
    <3>2. CASE r.source = histories[i].source /\ r.user = u
      BY <1>3, <1>5, <3>2 DEF HistoryInv, OneCopy
    <3> QED
      BY <1>8, <3>1, <3>2
  <2> QED
    BY <1>5, <1>7, <2>1 DEF RemovalsHold
<1> QED
  BY <1>1, <1>5, <1>6, <1>9 DEF HistoryInv, HistoriesTyped

\* The invariant holds in every state of the histories.
LEMMA HistoryInvHolds == HistorySpec => []HistoryInv
<1>1. ServerInit /\ HistoryInit => HistoryInv
  <2> SUFFICES ASSUME ServerInit, HistoryInit PROVE HistoryInv
    OBVIOUS
  <2>1. CallsAreAFunction /\ \A h \in Handlers : calls[h].op = "idle"
    BY FirstCalls DEF Idle
  <2>2. histories \in Seq(History) /\ DOMAIN histories = {} /\ removals = {}
    BY DEF HistoryInit
  <2> QED
    BY <2>1, <2>2 DEF HistoryInv, HistoriesTyped, InsertsTyped, OneCopy, ListedIsOpened,
                      RemovalsHold
<1>2. HistoryInv /\ [HistoryNext]_historyVars => HistoryInv'
  <2> SUFFICES ASSUME HistoryInv, [HistoryNext]_historyVars PROVE HistoryInv'
    OBVIOUS
  <2>1. ASSUME NEW h \in Handlers, NEW s \in Sources, NEW numbers \in Numbers,
               PublishHand(h, s, numbers)
        PROVE  HistoryInv'
    <3> DEFINE c == [op |-> "insert", source |-> s, numbers |-> numbers]
    <3>1. Continue(h, c) /\ UNCHANGED historyRows
      BY <2>1 DEF PublishHand, Begin
    <3>2. c.source = s /\ c.numbers = numbers
      OBVIOUS
    <3> HIDE DEF c
    <3>3. CallsAreAFunction' /\ \A g \in Handlers : calls'[g] = c \/ calls'[g] = calls[g]
      BY <3>1, OneCallChanges DEF HistoryInv
    <3>4. InsertsTyped'
      BY <3>2, <3>3 DEF HistoryInv, InsertsTyped
    <3> QED
      BY <3>1, <3>3, <3>4 DEF historyRows, HistoryInv, HistoriesTyped, OneCopy,
                              ListedIsOpened, RemovalsHold
  <2>2. CASE UNCHANGED historyVars
    BY <2>2 DEF historyVars, historyRows, HistoryInv, CallsAreAFunction, HistoriesTyped,
                InsertsTyped, OneCopy, ListedIsOpened, RemovalsHold
  <2> QED
    BY <2>1, <2>2, InsertKeeps, ForgetKeeps DEF HistoryNext, Numbers
<1> QED
  BY <1>1, <1>2, PTL DEF HistorySpec

\* A hand that a player had removed from its history is not listed, opened,
\* replayed or counted for it again, however often the hand is published
\* (removeUserPolicy, publishTerminal).
THEOREM RemovalIsFinal == HistorySpec => []RemovedStaysHidden
<1>1. HistoryInv => RemovedStaysHidden
  BY RemovedIsHidden
<1> QED
  BY <1>1, HistoryInvHolds, PTL

-----------------------------------------------------------------------------
(* The gaps of a replay *)

\* A set of numbers has a least one.
LEMMA LeastNumber ==
  ASSUME NEW T, T \subseteq Nat, T # {}
  PROVE  \E n \in T : \A m \in T : n <= m
<1> DEFINE R == OpToRel(<, Nat)
<1>1. IsWellFoundedOn(R, Nat)
  BY NatLessThanWellFounded
<1>2. \A m, n \in Nat : m < n => <<m, n>> \in R
  BY DEF OpToRel
<1> HIDE DEF R
<1>3. PICK n \in T : \A m \in T : ~(<<m, n>> \in R)
  BY <1>1, WFMin
<1>4. ASSUME NEW m \in T PROVE n <= m
  <2>1. m \in Nat /\ n \in Nat /\ ~(m < n)
    BY <1>2, <1>3
  <2> QED
    BY <2>1
<1> QED
  BY <1>4

\* And a greatest one, when it has a bound.
LEMMA GreatestBelow ==
  ASSUME NEW n \in Nat, NEW T, T \subseteq 0 .. n, T # {}
  PROVE  \E m \in T : \A k \in T : k <= m
<1> DEFINE D == {n - m : m \in T}
<1>1. D \subseteq Nat /\ D # {}
  <2>1. \A m \in T : m \in Nat /\ n - m \in Nat
    OBVIOUS
  <2> QED
    BY <2>1
<1>2. PICK d \in D : \A e \in D : d <= e
  <2> HIDE DEF D
  <2> QED
    BY <1>1, LeastNumber
<1>3. PICK m \in T : d = n - m
  OBVIOUS
<1>4. ASSUME NEW k \in T PROVE k <= m
  <2>1. n - k \in D /\ k \in Nat /\ m \in Nat
    OBVIOUS
  <2>2. n - m <= n - k
    BY <1>2, <1>3, <2>1
  <2> QED
    BY <2>1, <2>2
<1> QED
  BY <1>4

\* One gap for each pair of numbers that follow each other with a hole between.
LEMMA GapsAre ==
  ASSUME NEW shown, NEW g
  PROVE  g \in Gaps(shown) <=>
           \E p \in {0} \cup shown, c \in shown :
             /\ p < c /\ \A k \in shown : ~(p < k /\ k < c)
             /\ c > p + 1
             /\ g = (p + 1) .. (c - 1)
<1> DEFINE Follow(p, c) == p < c /\ \A k \in shown : ~(p < k /\ k < c)
           pairs == {p \in ({0} \cup shown) \X shown : Follow(p[1], p[2])}
<1>1. g \in Gaps(shown) <=> \E p \in pairs : p[2] > p[1] + 1 /\ g = (p[1] + 1) .. (p[2] - 1)
  BY DEF Gaps, GapBetween
<1>2. ASSUME NEW p \in {0} \cup shown, NEW c \in shown, Follow(p, c)
      PROVE  <<p, c>> \in pairs /\ <<p, c>>[1] = p /\ <<p, c>>[2] = c
  BY <1>2
<1>3. ASSUME NEW p \in pairs
      PROVE  p[1] \in {0} \cup shown /\ p[2] \in shown /\ Follow(p[1], p[2])
  OBVIOUS
<1> HIDE DEF pairs
<1>4. ASSUME NEW p \in {0} \cup shown, NEW c \in shown, Follow(p, c), c > p + 1,
             g = (p + 1) .. (c - 1)
      PROVE  g \in Gaps(shown)
  <2>1. PICK q \in pairs : q = <<p, c>>
    BY <1>2, <1>4
  <2>2. q[1] = p /\ q[2] = c
    BY <2>1
  <2> QED
    BY <1>1, <1>4, <2>2
<1>5. ASSUME g \in Gaps(shown)
      PROVE  \E p \in {0} \cup shown, c \in shown :
               Follow(p, c) /\ c > p + 1 /\ g = (p + 1) .. (c - 1)
  <2>1. PICK q \in pairs : q[2] > q[1] + 1 /\ g = (q[1] + 1) .. (q[2] - 1)
    BY <1>1, <1>5
  <2> QED
    BY <1>3, <2>1
<1> QED
  BY <1>4, <1>5

\* A number that was shown is in no gap, and one that is missing before the last
\* is in the gap from the one before it to the one after it.
LEMMA OneGapEach ==
  ASSUME NEW shown \in Numbers, MaxNumber \in Nat,
         NEW n \in 1 .. MaxNumber, NEW last \in shown, n <= last
  PROVE  Cardinality({g \in Gaps(shown) : n \in g}) = IF n \in shown THEN 0 ELSE 1
<1>0. shown \subseteq Nat /\ \A k \in shown : k \in Nat /\ k >= 1
  BY DEF Numbers
<1>1. CASE n \in shown
  <2>1. ASSUME NEW g \in Gaps(shown), n \in g PROVE FALSE
    <3>1. PICK p \in {0} \cup shown, c \in shown :
            /\ \A k \in shown : ~(p < k /\ k < c)
            /\ g = (p + 1) .. (c - 1)
      BY GapsAre
    <3>2. p \in Int /\ c \in Int
      BY <1>0
    <3>3. p < n /\ n < c
      BY <2>1, <3>1, <3>2
    <3> QED
      BY <1>1, <3>1, <3>3
  <2>2. {g \in Gaps(shown) : n \in g} = {}
    BY <2>1
  <2> QED
    BY <1>1, <2>2, FS_EmptySet
<1>2. CASE n \notin shown
  <2> DEFINE Before == {k \in {0} \cup shown : k <= n}
             After  == {k \in shown : n <= k}
  <2>1. Before \subseteq 0 .. n /\ Before # {} /\ After \subseteq Nat /\ After # {} /\ n \in Nat
    <3>1. n \in Nat /\ 0 \in Before
      OBVIOUS
    <3>2. last \in After
      OBVIOUS
    <3>3. Before \subseteq 0 .. n
      <4>1. ASSUME NEW k \in Before PROVE k \in Nat /\ k <= n
        <5>1. k \in {0} \cup shown /\ k <= n
          OBVIOUS
        <5> QED
          BY <1>0, <5>1
      <4> HIDE DEF Before
      <4> QED
        BY <3>1, <4>1
    <3>4. After \subseteq Nat
      BY <1>0
    <3> QED
      BY <3>1, <3>2, <3>3, <3>4
  <2>2. (\E m \in Before : \A k \in Before : k <= m) /\ (\E c \in After : \A k \in After : c <= k)
    <3> HIDE DEF Before, After
    <3> QED
      BY <2>1, GreatestBelow, LeastNumber
  <2>3. PICK p \in Before : \A k \in Before : k <= p
    BY <2>2
  <2>4. PICK c \in After : \A k \in After : c <= k
    BY <2>2
  <2>5. p \in Nat /\ c \in Nat /\ p < n /\ n < c /\ p \in {0} \cup shown /\ c \in shown
    BY <1>0, <1>2
  <2>6. \A k \in shown : ~(p < k /\ k < c)
    BY <1>0, <2>3, <2>4, <2>5
  <2> DEFINE gap == (p + 1) .. (c - 1)
  <2>7. gap \in Gaps(shown) /\ n \in gap
    <3>1. p < c /\ c > p + 1 /\ n \in gap
      BY <2>5
    <3> QED
      BY <2>5, <2>6, <3>1, GapsAre
  <2>8. ASSUME NEW g \in Gaps(shown), n \in g PROVE g = gap
    <3>1. PICK q \in {0} \cup shown, d \in shown :
            /\ \A k \in shown : ~(q < k /\ k < d)
            /\ g = (q + 1) .. (d - 1)
      BY GapsAre
    <3>2. q \in Nat /\ d \in Nat /\ q < n /\ n < d
      BY <1>0, <2>8, <3>1
    <3>3. q <= p /\ c <= d
      <4>1. q \in Before /\ d \in After
        BY <3>2
      <4> HIDE DEF Before, After
      <4> QED
        BY <2>3, <2>4, <4>1
    <3>4. q = p
      <4>1. CASE q < p
        <5>1. p \in shown /\ p < d
          BY <2>5, <3>2, <4>1
        <5> QED
          BY <3>1, <4>1, <5>1
      <4> QED
        BY <2>5, <3>2, <3>3, <4>1
    <3>5. c = d
      <4>1. CASE c < d
        BY <2>5, <3>1, <3>2, <4>1
      <4> QED
        BY <2>5, <3>2, <3>3, <4>1
    <3> QED
      BY <3>1, <3>4, <3>5
  <2>9. {g \in Gaps(shown) : n \in g} = {gap}
    BY <2>7, <2>8
  <2> QED
    BY <1>2, <2>9, FS_Singleton
<1> QED
  BY <1>1, <1>2

\* Up to the last event a replay shows a number or announces it as missing, in
\* one gap, wherever the holes are (projectReplay).
THEOREM ReplayGapsAreExact == HistorySpec => []GapsAreExact
<1>1. HistoryInv => GapsAreExact
  <2> SUFFICES ASSUME HistoryInv, NEW i \in UNION {ReplayFor(u) : u \in Authors},
                      NEW n \in 1 .. MaxNumber,
                      NEW last \in histories[i].numbers, n <= last
               PROVE  Cardinality({g \in Gaps(histories[i].numbers) : n \in g})
                        = IF n \in histories[i].numbers THEN 0 ELSE 1
    BY DEF GapsAreExact
  <2>1. i \in DOMAIN histories
    BY DEF ReplayFor, OpenedFor
  <2>2. histories[i].numbers \in Numbers
    <3>1. histories[i] \in History
      BY <2>1 DEF HistoryInv, HistoriesTyped
    <3> QED
      BY <3>1 DEF History
  <2> QED
    BY <2>2, OneGapEach, HistoryBounds
<1> QED
  BY <1>1, HistoryInvHolds, PTL


-----------------------------------------------------------------------------
(* Training at a table *)

trainingVars == <<calls, trainingRows>>

TrainingSpec == ServerInit /\ TrainingInit /\ [][TrainingNext]_trainingVars

Enrolment == [user : Trainees, status : {"ENROLLED", "LEFT"}]

TrainingTyped ==
  enrolments \in Seq(Enrolment) /\ tableMoves \in Seq(Trainees) /\ IsFiniteSet(reviewed)

\* A request under way is one of a trainee.
TraineeCalls ==
  \A h \in Handlers :
    /\ calls[h].op \in {"enrol", "open", "create", "mark"} => calls[h].user \in Trainees
    /\ calls[h].op = "mark" => calls[h].as \in {"ENROLLED", "LEFT"}

\* The unique index: one row for a user.
OneEnrolment == \A i, j \in DOMAIN enrolments : enrolments[i].user = enrolments[j].user => i = j

\* A decision is about an action there was, once, and belongs to who took it.
ReviewsAreOfMoves ==
  /\ \A r \in reviewed : /\ r.move \in DOMAIN tableMoves /\ r.row \in DOMAIN enrolments
                         /\ enrolments[r.row].user = tableMoves[r.move]
  /\ \A r, s \in reviewed : r.move = s.move => r = s

TrainingInv ==
  CallsAreAFunction /\ TrainingTyped /\ TraineeCalls /\ OneEnrolment /\ ReviewsAreOfMoves

\* The decision sent to a trainee is the last one it made: if a later one were
\* not among the few that are read, neither would be the one that is sent.
LEMMA ReviewedOnceFollows ==
  ASSUME TrainingInv
  PROVE  ReviewedOnce
<1>1. \A r \in reviewed : r.move \in Nat
  BY DEF TrainingInv, TrainingTyped, ReviewsAreOfMoves
<1>2. ASSUME NEW u \in Trainees, NEW r \in LatestFor(u), NEW s \in LatestFor(u)
      PROVE  r = s
  <2>1. r \in Shown(u) /\ s \in Shown(u) /\ r.move <= s.move /\ s.move <= r.move
    BY DEF LatestFor
  <2>2. r \in reviewed /\ s \in reviewed
    BY <2>1 DEF Shown, Own, Recent
  <2>3. r.move = s.move
    BY <1>1, <2>1, <2>2
  <2> QED
    BY <2>2, <2>3 DEF TrainingInv, ReviewsAreOfMoves
<1>3. ASSUME NEW u \in Trainees, NEW r \in LatestFor(u), NEW s \in OwnDecisions(u)
      PROVE  s.move <= r.move
  <2> DEFINE Later(t) == {d \in reviewed : d.move > t.move}
  <2>1. r \in Recent /\ enrolments[r.row].user = u /\ (\A d \in Shown(u) : d.move <= r.move)
    BY DEF LatestFor, Shown, Own
  <2>2. r \in reviewed /\ s \in reviewed /\ Cardinality(Later(r)) < Taken
    BY <2>1 DEF Recent, OwnDecisions, Own
  <2>3. SUFFICES ASSUME s.move > r.move PROVE FALSE
    BY <1>1, <2>2
  <2>4. Later(s) \subseteq Later(r)
    BY <1>1, <2>2, <2>3
  <2>5. IsFiniteSet(Later(r))
    <3>1. Later(r) \subseteq reviewed /\ IsFiniteSet(reviewed)
      BY DEF TrainingInv, TrainingTyped
    <3> HIDE DEF Later
    <3> QED
      BY <3>1, FS_Subset
  <2>6. /\ Cardinality(Later(s)) <= Cardinality(Later(r))
        /\ Cardinality(Later(s)) \in Nat /\ Cardinality(Later(r)) \in Nat
    <3> HIDE DEF Later
    <3>1. IsFiniteSet(Later(s)) /\ Cardinality(Later(s)) <= Cardinality(Later(r))
      BY <2>4, <2>5, FS_Subset
    <3> QED
      BY <2>5, <3>1, FS_CardinalityType
  <2>7. Cardinality(Later(s)) < Taken
    <3> HIDE DEF Later
    <3> QED
      BY <2>2, <2>6, TrainingBounds
  <2>8. s \in Shown(u)
    BY <2>2, <2>7 DEF Shown, Recent, OwnDecisions, Own
  <2> QED
    BY <1>1, <2>1, <2>2, <2>3, <2>8
<1> QED
  BY <1>2, <1>3 DEF ReviewedOnce, TrainingInv, OneEnrolment, ReviewsAreOfMoves

\* A call begins, moves on or ends.
LEMMA TraineeCallChanges ==
  ASSUME TrainingInv, NEW h \in Handlers, NEW c, Continue(h, c),
         c.op \in {"enrol", "open", "create", "mark"} => c.user \in Trainees,
         c.op = "mark" => c.as \in {"ENROLLED", "LEFT"}
  PROVE  CallsAreAFunction' /\ TraineeCalls'
<1>1. CallsAreAFunction' /\ \A g \in Handlers : calls'[g] = c \/ calls'[g] = calls[g]
  BY OneCallChanges DEF TrainingInv
<1>2. TraineeCalls'
  BY <1>1 DEF TrainingInv, TraineeCalls
<1> QED
  BY <1>1, <1>2

\* A call that ends.
LEMMA TraineeCallEnds ==
  ASSUME TrainingInv, NEW h \in Handlers, Finish(h)
  PROVE  CallsAreAFunction' /\ TraineeCalls'
<1>1. PICK c : c = Idle
  OBVIOUS
<1>2. Continue(h, c) /\ c.op = "idle"
  BY <1>1 DEF Finish, Idle
<1> QED
  BY <1>2, TraineeCallChanges

\* A step that writes no row.
LEMMA RowsStay ==
  ASSUME TrainingInv, UNCHANGED trainingRows, CallsAreAFunction', TraineeCalls'
  PROVE  TrainingInv'
  BY DEF TrainingInv, trainingRows, TrainingTyped, OneEnrolment, ReviewsAreOfMoves

\* A new row is the first of its user.
LEMMA EnrolCreateKeeps ==
  ASSUME TrainingInv, NEW h \in Handlers, EnrolCreate(h)
  PROVE  TrainingInv'
<1> DEFINE c == calls[h]
           new == [user |-> c.user, status |-> "ENROLLED"]
           n == Len(enrolments) + 1
<1>1. CallsAreAFunction' /\ TraineeCalls'
  BY TraineeCallEnds DEF EnrolCreate
<1>2. c.user \in Trainees /\ tableMoves' = tableMoves /\ reviewed' = reviewed
  BY DEF EnrolCreate, TrainingInv, TraineeCalls
<1>3. CASE enrolments' = enrolments
  BY <1>1, <1>2, <1>3 DEF TrainingInv, TrainingTyped, OneEnrolment, ReviewsAreOfMoves
<1>4. CASE enrolments' = Append(enrolments, new) /\ RowsFor(c.user) = {}
  <2>1. new \in Enrolment /\ new.user = c.user
    BY <1>2 DEF Enrolment
  <2>2. \A i \in DOMAIN enrolments : enrolments[i].user # c.user
    BY <1>4 DEF RowsFor
  <2> HIDE DEF new
  <2>3. /\ enrolments' \in Seq(Enrolment)
        /\ DOMAIN enrolments' = (DOMAIN enrolments) \cup {n} /\ n \notin DOMAIN enrolments
        /\ enrolments'[n] = new /\ \A i \in DOMAIN enrolments : enrolments'[i] = enrolments[i]
    BY <1>4, <2>1, AppendIs DEF TrainingInv, TrainingTyped
  <2> HIDE DEF c, n
  <2>4. OneEnrolment'
    BY <2>1, <2>2, <2>3 DEF TrainingInv, OneEnrolment
  <2>5. ReviewsAreOfMoves'
    BY <1>2, <2>3 DEF TrainingInv, ReviewsAreOfMoves
  <2> QED
    BY <1>1, <1>2, <2>3, <2>4, <2>5 DEF TrainingInv, TrainingTyped
<1> QED
  BY <1>3, <1>4 DEF EnrolCreate, MayCreate

\* A row that is marked stays its user's.
LEMMA MarkKeeps ==
  ASSUME TrainingInv, NEW h \in Handlers, Mark(h)
  PROVE  TrainingInv'
<1>1. CallsAreAFunction' /\ TraineeCalls'
  BY TraineeCallEnds DEF Mark
<1>2. PICK u, as : u = calls[h].user /\ as = calls[h].as
  OBVIOUS
<1>3. as \in {"ENROLLED", "LEFT"} /\ UNCHANGED <<tableMoves, reviewed>>
  BY <1>2 DEF Mark, TrainingInv, TraineeCalls
<1>4. enrolments' = [i \in DOMAIN enrolments |->
        IF enrolments[i].user = u THEN [enrolments[i] EXCEPT !.status = as] ELSE enrolments[i]]
  BY <1>2 DEF Mark
<1>5. DOMAIN enrolments = 1 .. Len(enrolments) /\ Len(enrolments) \in Nat
  BY DEF TrainingInv, TrainingTyped
<1>6. ASSUME NEW i \in DOMAIN enrolments
      PROVE  enrolments'[i] \in Enrolment /\ enrolments'[i].user = enrolments[i].user
  <2>1. enrolments[i] \in Enrolment
    BY DEF TrainingInv, TrainingTyped
  <2>2. enrolments'[i] =
          IF enrolments[i].user = u THEN [enrolments[i] EXCEPT !.status = as] ELSE enrolments[i]
    BY <1>4, Zenon
  <2> QED
    BY <1>3, <2>1, <2>2 DEF Enrolment
<1>7. DOMAIN enrolments' = DOMAIN enrolments
  BY <1>4, Zenon
<1>8. enrolments' \in Seq(Enrolment)
  <2>1. enrolments' = [i \in 1 .. Len(enrolments) |-> enrolments'[i]]
    BY <1>4, <1>5, Zenon
  <2>2. \A i \in 1 .. Len(enrolments) : enrolments'[i] \in Enrolment
    BY <1>5, <1>6
  <2> QED
    BY <1>5, <2>1, <2>2
<1>9. OneEnrolment'
  BY <1>6, <1>7 DEF TrainingInv, OneEnrolment
<1>10. ReviewsAreOfMoves'
  BY <1>3, <1>6, <1>7 DEF TrainingInv, ReviewsAreOfMoves
<1> QED
  BY <1>1, <1>3, <1>8, <1>9, <1>10 DEF TrainingInv, TrainingTyped

\* An action is reviewed for the one row of who took it.
LEMMA ActKeeps ==
  ASSUME TrainingInv, NEW u \in Trainees, Act(u)
  PROVE  TrainingInv'
<1> DEFINE n == Len(tableMoves) + 1
<1>1. CallsAreAFunction' /\ TraineeCalls' /\ OneEnrolment' /\ UNCHANGED enrolments
  BY DEF Act, TrainingInv, CallsAreAFunction, TraineeCalls, OneEnrolment
<1>2. /\ tableMoves' \in Seq(Trainees) /\ Len(tableMoves') = n
      /\ DOMAIN tableMoves' = (DOMAIN tableMoves) \cup {n} /\ n \notin DOMAIN tableMoves
      /\ tableMoves'[n] = u /\ \A i \in DOMAIN tableMoves : tableMoves'[i] = tableMoves[i]
  BY AppendIs DEF Act, TrainingInv, TrainingTyped
<1> DEFINE New == {[move |-> n, row |-> i] : i \in RowsFor(u) \cap Enrolled}
<1>3. reviewed' = reviewed \cup New
  BY <1>2 DEF Act
<1> HIDE DEF n
<1>4. \A r \in New : r.move = n /\ r.row \in DOMAIN enrolments /\ enrolments[r.row].user = u
  BY DEF RowsFor
<1>5. \A r, s \in New : r = s
  BY DEF RowsFor, TrainingInv, OneEnrolment
<1>6. IsFiniteSet(reviewed')
  <2> HIDE DEF New
  <2>1. New = {} \/ \E r \in New : New = {r}
    BY <1>5
  <2>2. IsFiniteSet(New)
    <3>1. CASE New = {}
      BY <3>1, FS_EmptySet
    <3>2. ASSUME NEW r \in New, New = {r} PROVE IsFiniteSet(New)
      <4>1. IsFiniteSet({r})
        BY FS_Singleton
      <4> QED
        BY <3>2, <4>1
    <3> QED
      BY <2>1, <3>1, <3>2
  <2> QED
    BY <1>3, <2>2, FS_Union DEF TrainingInv, TrainingTyped
<1> HIDE DEF New
<1>7. ReviewsAreOfMoves'
  <2>1. \A r \in reviewed : r.move \in DOMAIN tableMoves /\ r.move # n
    BY <1>2 DEF TrainingInv, ReviewsAreOfMoves
  <2>2. ASSUME NEW r \in reviewed'
        PROVE  /\ r.move \in DOMAIN tableMoves' /\ r.row \in DOMAIN enrolments
               /\ enrolments[r.row].user = tableMoves'[r.move]
    BY <1>2, <1>3, <1>4, <2>1 DEF TrainingInv, ReviewsAreOfMoves
  <2>3. ASSUME NEW r \in reviewed', NEW s \in reviewed', r.move = s.move
        PROVE  r = s
    BY <1>3, <1>4, <1>5, <2>1, <2>3 DEF TrainingInv, ReviewsAreOfMoves
  <2> QED
    BY <1>1, <2>2, <2>3 DEF ReviewsAreOfMoves
<1> QED
  BY <1>1, <1>2, <1>6, <1>7 DEF TrainingInv, TrainingTyped

\* A user is enrolled once, an action is reviewed once and for who took it, and
\* a trainee is sent its own last decision, whatever order requests and actions
\* come in (createOrJoinTraining, createAcceptedDecision,
\* emitLatestTrainingDecision).
THEOREM TrainingIsReviewedOnce == TrainingSpec => []ReviewedOnce
<1>1. ServerInit /\ TrainingInit => TrainingInv
  <2> SUFFICES ASSUME ServerInit, TrainingInit PROVE TrainingInv
    OBVIOUS
  <2>1. CallsAreAFunction /\ \A h \in Handlers : calls[h].op = "idle"
    BY FirstCalls DEF Idle
  <2>2. /\ enrolments \in Seq(Enrolment) /\ tableMoves \in Seq(Trainees)
        /\ DOMAIN enrolments = {} /\ reviewed = {}
    BY DEF TrainingInit
  <2> QED
    BY <2>1, <2>2, FS_EmptySet
       DEF TrainingInv, TrainingTyped, TraineeCalls, OneEnrolment, ReviewsAreOfMoves
<1>2. TrainingInv /\ [TrainingNext]_trainingVars => TrainingInv'
  <2> SUFFICES ASSUME TrainingInv, [TrainingNext]_trainingVars PROVE TrainingInv'
    OBVIOUS
  <2>1. ASSUME NEW h \in Handlers, NEW u \in Trainees, JoinTraining(h, u) \/ LeaveTraining(h, u)
        PROVE  TrainingInv'
    <3>1. PICK c : /\ Continue(h, c) /\ c.user = u
                   /\ c.op = "mark" => c.as \in {"ENROLLED", "LEFT"}
                   /\ UNCHANGED trainingRows
      BY <2>1 DEF JoinTraining, LeaveTraining, Begin
    <3> QED
      BY <3>1, TraineeCallChanges, RowsStay
  <2>2. ASSUME NEW h \in Handlers, EnrolRead(h)
        PROVE  TrainingInv'
    <3>1. UNCHANGED trainingRows /\ calls[h].user \in Trainees
      BY <2>2 DEF EnrolRead, TrainingInv, TraineeCalls
    <3>2. CASE Finish(h)
      BY <3>1, <3>2, TraineeCallEnds, RowsStay
    <3>3. ASSUME NEW c, Continue(h, c), c.user = calls[h].user,
                 c.op = "mark" => c.as \in {"ENROLLED", "LEFT"}
          PROVE  TrainingInv'
      BY <3>1, <3>3, TraineeCallChanges, RowsStay
    <3>4. Finish(h) \/ \E c : /\ Continue(h, c) /\ c.user = calls[h].user
                              /\ c.op = "mark" => c.as \in {"ENROLLED", "LEFT"}
      BY <2>2 DEF EnrolRead
    <3> QED
      BY <3>2, <3>3, <3>4
  <2>3. CASE UNCHANGED trainingVars
    <3>1. CallsAreAFunction' /\ TraineeCalls' /\ UNCHANGED trainingRows
      BY <2>3 DEF trainingVars, TrainingInv, CallsAreAFunction, TraineeCalls
    <3> QED
      BY <3>1, RowsStay
  <2> QED
    BY <2>1, <2>2, <2>3, EnrolCreateKeeps, MarkKeeps, ActKeeps DEF TrainingNext
<1>3. TrainingInv => ReviewedOnce
  BY ReviewedOnceFollows
<1> QED
  BY <1>1, <1>2, <1>3, PTL DEF TrainingSpec


-----------------------------------------------------------------------------
(* The sessions of the trainer *)

trainerVars == <<calls, trainerRows>>

TrainerSpec == ServerInit /\ TrainerInit /\ [][TrainerNext]_trainerVars

Formats  == {"PREFLOP", "POSTFLOP"}
Session  == [format : Formats, status : {"ACTIVE", "COMPLETED"}, current : Nat]
Exercise == [session : Nat, sequence : Nat, supported : BOOLEAN, from : Int]

TrainerTyped ==
  /\ sessions \in Seq(Session) /\ scenarios \in Seq(Exercise)
  /\ decided \subseteq DOMAIN scenarios
  /\ \A x \in DOMAIN scenarios : scenarios[x].session \in DOMAIN sessions

\* The scenarios of a session are numbered without a hole: so a number that was
\* counted earlier is taken or is still the next.
NumberedIn(s) ==
  /\ IsFiniteSet(ScenariosOf(s))
  /\ \A x \in ScenariosOf(s) : scenarios[x].sequence \in 1 .. Count(s)
  /\ \A n \in 1 .. Count(s) : \E x \in ScenariosOf(s) : scenarios[x].sequence = n
  /\ \A x, y \in ScenariosOf(s) : scenarios[x].sequence = scenarios[y].sequence => x = y

Numbered == \A s \in DOMAIN sessions : NumberedIn(s)

\* A session is at the last of its scenarios, or over.
AtTheLast ==
  \A s \in DOMAIN sessions :
    LET x == sessions[s].current
    IN  x = NoScenario \/ (x \in ScenariosOf(s) /\ scenarios[x].sequence = Count(s))

\* Who goes on from a decision gets the number after it.
FromIsBefore ==
  \A x \in DOMAIN scenarios : scenarios[x].from > 0 =>
    LET from == scenarios[x].from
    IN  /\ from \in ScenariosOf(scenarios[x].session)
        /\ scenarios[x].sequence = scenarios[from].sequence + 1

ExerciseCall(c) ==
  /\ c.op = "create" => c.format \in Formats
  /\ c.op \in {"replace", "decide"} => c.scenario \in DOMAIN scenarios
  /\ c.op = "complete" => c.session \in DOMAIN sessions
  /\ c.op = "continue" =>
       /\ c.session \in DOMAIN sessions /\ c.supported \in BOOLEAN
       /\ c.scenario \in ScenariosOf(c.session)
       /\ c.sequence = scenarios[c.scenario].sequence + 1

TrainerCalls == \A h \in Handlers : ExerciseCall(calls[h])

TrainerInv ==
  CallsAreAFunction /\ TrainerTyped /\ Numbered /\ AtTheLast /\ FromIsBefore /\ TrainerCalls

\* Two scenarios that follow one decision have one number; and the decision of
\* the current scenario, the last of its session, is the latest.
LEMMA OneStepFollows ==
  ASSUME TrainerInv
  PROVE  OneStepPerDecision
<1>1. ASSUME NEW x \in DOMAIN scenarios, NEW y \in DOMAIN scenarios,
             scenarios[x].from = scenarios[y].from, scenarios[x].from > 0
      PROVE  x = y
  <2> DEFINE from == scenarios[x].from
  <2>1. /\ from \in ScenariosOf(scenarios[x].session)
        /\ from \in ScenariosOf(scenarios[y].session)
        /\ scenarios[x].sequence = scenarios[from].sequence + 1
        /\ scenarios[y].sequence = scenarios[from].sequence + 1
    BY <1>1 DEF TrainerInv, FromIsBefore
  <2>2. PICK s \in DOMAIN sessions : s = scenarios[x].session
    BY DEF TrainerInv, TrainerTyped
  <2>3. scenarios[x].session = scenarios[y].session
    BY <2>1 DEF ScenariosOf
  <2>4. x \in ScenariosOf(s) /\ y \in ScenariosOf(s)
    BY <2>2, <2>3 DEF ScenariosOf
  <2> QED
    BY <2>1, <2>4 DEF TrainerInv, Numbered, NumberedIn
<1>2. ASSUME NEW s \in DOMAIN sessions, sessions[s].current \in decided
      PROVE  LatestDecision(s) = {sessions[s].current}
  <2> DEFINE x == sessions[s].current
  <2>1. x # NoScenario
    BY <1>2 DEF NoScenario, TrainerInv, TrainerTyped
  <2>2. x \in ScenariosOf(s) /\ scenarios[x].sequence = Count(s)
    BY <2>1 DEF TrainerInv, AtTheLast
  <2>3. \A y \in ScenariosOf(s) :
          /\ scenarios[y].sequence \in 1 .. Count(s)
          /\ scenarios[y].sequence = Count(s) => y = x
    BY <2>2 DEF TrainerInv, Numbered, NumberedIn
  <2>4. Count(s) \in Nat
    BY FS_CardinalityType DEF Count, TrainerInv, Numbered, NumberedIn
  <2> DEFINE own == ScenariosOf(s)
  <2>5. \A y \in own : scenarios[y].sequence \in Nat /\ scenarios[y].sequence <= Count(s)
    BY <2>3, <2>4
  <2>6. LatestDecision(s) = {y \in own \cap decided :
          \A z \in own \cap decided : scenarios[z].sequence <= scenarios[y].sequence}
    BY DEF LatestDecision
  <2>7. x \in own \cap decided
    BY <1>2, <2>2
  <2> HIDE DEF x, own
  <2>8. ASSUME NEW y \in LatestDecision(s) PROVE y = x
    <3>1. y \in own /\ Count(s) <= scenarios[y].sequence
      BY <2>2, <2>6, <2>7 DEF x
    <3> QED
      BY <2>3, <2>4, <2>5, <3>1 DEF own
  <2>9. x \in LatestDecision(s)
    BY <2>2, <2>5, <2>6, <2>7
  <2> QED
    BY <2>8, <2>9 DEF x
<1> QED
  BY <1>1, <1>2 DEF OneStepPerDecision


RowsInv == TrainerTyped /\ Numbered /\ AtTheLast /\ FromIsBefore

\* The next scenario of a session, an old one or a new one, is added, and the
\* session is at it.
Adds(s, e) ==
  /\ NumberedIn(s) /\ e.session = s /\ e.sequence = Count(s) + 1
  /\ e.from > 0 => e.from \in ScenariosOf(s) /\ e.sequence = scenarios[e.from].sequence + 1
  /\ scenarios' = Append(scenarios, e) /\ decided' = decided
  /\ sessions' \in Seq(Session) /\ DOMAIN sessions' = (DOMAIN sessions) \cup {s}
  /\ sessions'[s].current = Len(scenarios) + 1
  /\ \A t \in DOMAIN sessions : t # s => sessions'[t] = sessions[t]

\* The scenarios stay numbered, and requests under way keep what they rely on.
LEMMA ScenarioAdded ==
  ASSUME RowsInv, NEW s \in Nat, NEW e \in Exercise, Adds(s, e)
  PROVE  RowsInv' /\ \A c : ExerciseCall(c) => ExerciseCall(c)'
<1>0. PICK n : n = Len(scenarios) + 1
  OBVIOUS
<1>1. /\ scenarios' \in Seq(Exercise)
      /\ DOMAIN scenarios' = (DOMAIN scenarios) \cup {n} /\ n \notin DOMAIN scenarios
      /\ scenarios'[n] = e /\ \A x \in DOMAIN scenarios : scenarios'[x] = scenarios[x]
      /\ n \in Nat /\ n # 0
  BY <1>0, AppendIs DEF Adds, RowsInv, TrainerTyped
<1>2. TrainerTyped'
  BY <1>1 DEF Adds, RowsInv, TrainerTyped
<1>3. ASSUME NEW t
      PROVE  ScenariosOf(t)' = IF t = s THEN ScenariosOf(s) \cup {n} ELSE ScenariosOf(t)
  BY <1>1 DEF Adds, ScenariosOf
<1>4. ASSUME NEW t, t # s PROVE ScenariosOf(t)' = ScenariosOf(t) /\ Count(t)' = Count(t)
  BY <1>3, <1>4 DEF Count
<1>5. ScenariosOf(s)' = ScenariosOf(s) \cup {n} /\ n \notin ScenariosOf(s)
  BY <1>1, <1>3 DEF ScenariosOf
<1>6. /\ IsFiniteSet(ScenariosOf(s)') /\ Count(s)' = Count(s) + 1 /\ Count(s) \in Nat
  <2>1. IsFiniteSet(ScenariosOf(s))
    BY DEF Adds, NumberedIn
  <2>2. PICK own : own = ScenariosOf(s)
    OBVIOUS
  <2>3. IsFiniteSet(own \cup {n}) /\ Cardinality(own \cup {n}) = Cardinality(own) + 1
    BY <1>5, <2>1, <2>2, FS_AddElement
  <2>4. Cardinality(own) \in Nat
    BY <2>1, <2>2, FS_CardinalityType
  <2> QED
    BY <1>5, <2>2, <2>3, <2>4 DEF Count
<1>7. \A t : \A x \in ScenariosOf(t) : scenarios'[x] = scenarios[x] /\ x \in ScenariosOf(t)'
  <2>1. \A t : ScenariosOf(t) \subseteq DOMAIN scenarios
    BY DEF ScenariosOf
  <2> QED
    BY <1>1, <1>3, <2>1
<1>8. NumberedIn(s)'
  <2>0. \A x \in ScenariosOf(s) : scenarios'[x] = scenarios[x]
    BY <1>7
  <2>1. ASSUME NEW x \in ScenariosOf(s)
        PROVE  /\ scenarios'[x].sequence \in Nat /\ 1 <= scenarios'[x].sequence
               /\ scenarios'[x].sequence <= Count(s)
    <3>1. PICK k, count : k = scenarios[x].sequence /\ count = Count(s)
      OBVIOUS
    <3>2. k \in 1 .. count
      BY <3>1 DEF Adds, NumberedIn
    <3>3. count \in Nat
      BY <1>6, <3>1
    <3>4. k \in Nat /\ 1 <= k /\ k <= count
      BY <3>2, <3>3
    <3>5. scenarios'[x].sequence = k
      BY <2>0, <3>1
    <3> QED
      BY <3>1, <3>4, <3>5
  <2>2. scenarios'[n].sequence = Count(s) + 1
    BY <1>1 DEF Adds
  <2>3. ASSUME NEW x \in ScenariosOf(s)'
        PROVE  scenarios'[x].sequence \in 1 .. (Count(s) + 1)
    <3>1. PICK count \in Nat : count = Count(s)
      BY <1>6
    <3>2. CASE x = n
      BY <2>2, <3>1, <3>2
    <3>3. CASE x \in ScenariosOf(s)
      BY <2>1, <3>1, <3>3
    <3> QED
      BY <1>5, <3>2, <3>3
  <2>4. ASSUME NEW k \in 1 .. (Count(s) + 1)
        PROVE  \E x \in ScenariosOf(s)' : scenarios'[x].sequence = k
    <3>1. CASE k = Count(s) + 1
      BY <1>5, <2>2, <3>1
    <3>2. CASE k # Count(s) + 1
      <4>1. k \in 1 .. Count(s)
        BY <1>6, <3>2
      <4>2. PICK x \in ScenariosOf(s) : scenarios[x].sequence = k
        BY <4>1 DEF Adds, NumberedIn
      <4> QED
        BY <1>7, <4>2
    <3> QED
      BY <3>1, <3>2
  <2>5. ASSUME NEW x \in ScenariosOf(s)', NEW y \in ScenariosOf(s)',
               scenarios'[x].sequence = scenarios'[y].sequence
        PROVE  x = y
    <3>1. CASE x \in ScenariosOf(s) /\ y \in ScenariosOf(s)
      <4>1. scenarios[x].sequence = scenarios[y].sequence
        BY <2>0, <2>5, <3>1
      <4> QED
        BY <3>1, <4>1 DEF Adds, NumberedIn
    <3>2. CASE x = n \/ y = n
      <4>1. PICK count \in Nat : count = Count(s)
        BY <1>6
      <4>2. ~(x \in ScenariosOf(s) /\ scenarios'[x].sequence = count + 1)
        BY <2>1, <4>1
      <4>3. ~(y \in ScenariosOf(s) /\ scenarios'[y].sequence = count + 1)
        BY <2>1, <4>1
      <4>4. scenarios'[x].sequence = count + 1 /\ scenarios'[y].sequence = count + 1
        BY <2>2, <2>5, <3>2, <4>1
      <4> QED
        BY <1>5, <4>2, <4>3, <4>4
    <3> QED
      BY <1>5, <3>1, <3>2
  <2> QED
    BY <1>6, <2>3, <2>4, <2>5 DEF NumberedIn
<1>9. Numbered'
  <2>1. ASSUME NEW t \in DOMAIN sessions, t # s PROVE NumberedIn(t)'
    <3>1. NumberedIn(t)
      BY DEF RowsInv, Numbered
    <3>2. \A x \in ScenariosOf(t) : scenarios'[x] = scenarios[x]
      BY <1>7
    <3>3. ScenariosOf(t)' = ScenariosOf(t) /\ Count(t)' = Count(t)
      BY <1>4, <2>1
    <3>4. Count(t) \in Nat
      BY <3>1, FS_CardinalityType DEF NumberedIn, Count
    <3>5. /\ \A x \in ScenariosOf(t) : scenarios'[x].sequence \in 1 .. Count(t)'
          /\ \A k \in 1 .. Count(t)' : \E x \in ScenariosOf(t) : scenarios'[x].sequence = k
      BY <3>1, <3>2, <3>3, <3>4 DEF NumberedIn
    <3>6. ASSUME NEW x \in ScenariosOf(t), NEW y \in ScenariosOf(t),
                 scenarios'[x].sequence = scenarios'[y].sequence
          PROVE  x = y
      BY <3>1, <3>2, <3>6 DEF NumberedIn
    <3> QED
      BY <3>1, <3>3, <3>5, <3>6 DEF NumberedIn
  <2> QED
    BY <1>8, <2>1 DEF Adds, Numbered
<1>10. AtTheLast'
  <2>1. ASSUME NEW t \in DOMAIN sessions, t # s
        PROVE  LET x == sessions'[t].current
               IN  x = NoScenario \/ (x \in ScenariosOf(t)' /\ scenarios'[x].sequence = Count(t)')
    <3>1. \A x \in ScenariosOf(t) : scenarios'[x] = scenarios[x]
      BY <1>7
    <3>2. ScenariosOf(t)' = ScenariosOf(t) /\ Count(t)' = Count(t) /\ sessions'[t] = sessions[t]
      BY <1>4, <2>1 DEF Adds
    <3> QED
      BY <3>1, <3>2 DEF RowsInv, AtTheLast
  <2>2. sessions'[s].current \in ScenariosOf(s)'
          /\ scenarios'[sessions'[s].current].sequence = Count(s)'
    BY <1>0, <1>1, <1>5, <1>6 DEF Adds
  <2> QED
    BY <2>1, <2>2 DEF Adds, AtTheLast
<1>11. FromIsBefore'
  <2>1. ASSUME NEW x \in DOMAIN scenarios, scenarios'[x].from > 0
        PROVE  /\ scenarios'[x].from \in ScenariosOf(scenarios[x].session)'
               /\ scenarios'[x].sequence = scenarios'[scenarios'[x].from].sequence + 1
    <3>1. scenarios'[x] = scenarios[x]
      BY <1>1
    <3>2. /\ scenarios[x].from \in ScenariosOf(scenarios[x].session)
          /\ scenarios[x].sequence = scenarios[scenarios[x].from].sequence + 1
      BY <2>1, <3>1 DEF RowsInv, FromIsBefore
    <3>3. PICK t, from : t = scenarios[x].session /\ from = scenarios[x].from
      OBVIOUS
    <3>4. scenarios'[from] = scenarios[from] /\ from \in ScenariosOf(t)'
      BY <1>7, <3>2, <3>3
    <3>5. ScenariosOf(scenarios[x].session)' = ScenariosOf(t)'
      BY <3>1, <3>3 DEF ScenariosOf
    <3> QED
      BY <3>1, <3>2, <3>3, <3>4, <3>5
  <2>2. ASSUME scenarios'[n].from > 0
        PROVE  /\ scenarios'[n].from \in ScenariosOf(scenarios[n].session)'
               /\ scenarios'[n].sequence = scenarios'[scenarios'[n].from].sequence + 1
    <3>1. e.from \in ScenariosOf(s) /\ e.sequence = scenarios[e.from].sequence + 1
      BY <1>1, <2>2 DEF Adds
    <3>2. e.from \in ScenariosOf(s)' /\ scenarios'[e.from] = scenarios[e.from]
      BY <1>7, <3>1
    <3>3. ScenariosOf(scenarios[n].session)' = ScenariosOf(s)'
      <4>1. scenarios'[n].session = s
        BY <1>1 DEF Adds
      <4> QED
        BY <4>1 DEF ScenariosOf
    <3> QED
      BY <1>1, <3>1, <3>2, <3>3
  <2>3. ASSUME NEW x \in DOMAIN scenarios', scenarios'[x].from > 0
        PROVE  /\ scenarios'[x].from \in ScenariosOf(scenarios[x].session)'
               /\ scenarios'[x].sequence = scenarios'[scenarios'[x].from].sequence + 1
    <3>1. CASE x \in DOMAIN scenarios
      BY <2>1, <2>3, <3>1
    <3>2. CASE x = n
      BY <2>2, <2>3, <3>2
    <3> QED
      BY <1>1, <3>1, <3>2
  <2> QED
    BY <2>3 DEF FromIsBefore
<1>12. ASSUME NEW c, ExerciseCall(c) PROVE ExerciseCall(c)'
  <2>1. DOMAIN scenarios \subseteq DOMAIN scenarios' /\ DOMAIN sessions \subseteq DOMAIN sessions'
    BY <1>1 DEF Adds
  <2>2. c.op = "continue" => /\ c.scenario \in ScenariosOf(c.session)'
                             /\ c.sequence = scenarios'[c.scenario].sequence + 1
    BY <1>7, <1>12 DEF ExerciseCall
  <2> QED
    BY <1>12, <2>1, <2>2 DEF ExerciseCall
<1> QED
  BY <1>2, <1>9, <1>10, <1>11, <1>12 DEF RowsInv


\* A call begins, moves on or ends, after its writes.
LEMMA ExerciseCallChanges ==
  ASSUME TrainerInv, NEW h \in Handlers, NEW c, Continue(h, c), ExerciseCall(c)',
         \A d : ExerciseCall(d) => ExerciseCall(d)'
  PROVE  CallsAreAFunction' /\ TrainerCalls'
<1>1. /\ CallsAreAFunction' /\ calls'[h] = c
      /\ \A g \in Handlers \ {h} : calls'[g] = calls[g]
  BY OneCallChanges DEF TrainerInv
<1>2. ASSUME NEW g \in Handlers PROVE ExerciseCall(calls[g])'
  <2>1. CASE g = h
    <3>1. PICK d : d = calls'[g]
      OBVIOUS
    <3>2. d = c
      BY <1>1, <2>1, <3>1
    <3>3. ExerciseCall(d)'
      BY <3>2
    <3> QED
      BY <3>1, <3>3 DEF ExerciseCall
  <2>2. CASE g # h
    <3>1. PICK d : d = calls[g]
      OBVIOUS
    <3>2. ExerciseCall(d)
      BY <3>1 DEF TrainerInv, TrainerCalls
    <3>3. ExerciseCall(d)' /\ calls'[g] = d
      BY <1>1, <2>2, <3>1, <3>2
    <3> QED
      BY <3>3 DEF ExerciseCall
  <2> QED
    BY <2>1, <2>2
<1> QED
  BY <1>1, <1>2 DEF TrainerCalls

\* A call that ends.
LEMMA ExerciseCallEnds ==
  ASSUME TrainerInv, NEW h \in Handlers, Finish(h),
         \A d : ExerciseCall(d) => ExerciseCall(d)'
  PROVE  CallsAreAFunction' /\ TrainerCalls'
<1>1. PICK c : c = Idle
  OBVIOUS
<1>2. Continue(h, c) /\ c.op = "idle"
  BY <1>1 DEF Finish, Idle
<1>3. ExerciseCall(c)'
  BY <1>2 DEF ExerciseCall
<1> QED
  BY <1>2, <1>3, ExerciseCallChanges

\* A step that adds no scenario and moves no session.
LEMMA RowsUnchanged ==
  ASSUME RowsInv, UNCHANGED <<sessions, scenarios>>, decided' \subseteq DOMAIN scenarios
  PROVE  RowsInv' /\ \A d : ExerciseCall(d) => ExerciseCall(d)'
<1>1. \A s : ScenariosOf(s)' = ScenariosOf(s) /\ Count(s)' = Count(s)
  BY DEF ScenariosOf, Count
<1>2. RowsInv'
  BY <1>1 DEF RowsInv, TrainerTyped, Numbered, NumberedIn, AtTheLast, FromIsBefore
<1> QED
  BY <1>1, <1>2 DEF ExerciseCall

\* A call that reads and will write.
LEMMA ReadKeeps ==
  ASSUME TrainerInv, NEW h \in Handlers, NEW c, Begin(h, c), ExerciseCall(c),
         UNCHANGED trainerRows
  PROVE  TrainerInv'
<1>1. RowsInv /\ UNCHANGED <<sessions, scenarios>> /\ decided' \subseteq DOMAIN scenarios
  BY DEF TrainerInv, RowsInv, trainerRows, TrainerTyped
<1>2. RowsInv' /\ \A d : ExerciseCall(d) => ExerciseCall(d)'
  BY <1>1, RowsUnchanged
<1>3. CallsAreAFunction' /\ TrainerCalls'
  BY <1>2, ExerciseCallChanges DEF Begin
<1> QED
  BY <1>2, <1>3 DEF TrainerInv, RowsInv

\* The current scenario of a session is one of its own.
LEMMA CurrentIsOwn ==
  ASSUME TrainerInv, NEW s \in DOMAIN sessions, sessions[s].current # NoScenario
  PROVE  /\ sessions[s].current \in DOMAIN scenarios
         /\ sessions[s].current \in ScenariosOf(s)
         /\ scenarios[sessions[s].current].sequence = Count(s)
  BY DEF TrainerInv, AtTheLast, ScenariosOf

\* Each request begins with what it has read.
LEMMA BeginsKeep ==
  ASSUME TrainerInv, NEW h \in Handlers,
         \/ \E format \in Formats : \/ StartNew(h, format)
                                    \/ \E s \in DOMAIN sessions : Decide(h, format, s)
         \/ \E s \in DOMAIN sessions : Resume(h, s) \/ PreflopNext(h, s) \/ PostflopNext(h, s)
  PROVE  TrainerInv'
<1>1. ASSUME NEW format \in Formats, StartNew(h, format) PROVE TrainerInv'
  <2> DEFINE c == [op |-> "create", format |-> format]
  <2>1. ExerciseCall(c)
    BY DEF ExerciseCall
  <2>2. Begin(h, c) /\ UNCHANGED trainerRows
    BY <1>1 DEF StartNew
  <2> HIDE DEF c
  <2> QED
    BY <2>1, <2>2, ReadKeeps
<1>2. ASSUME NEW s \in DOMAIN sessions, NEW x \in DOMAIN scenarios, NEW op \in {"decide", "replace"},
             Begin(h, [op |-> op, scenario |-> x]), UNCHANGED trainerRows
      PROVE  TrainerInv'
  <2> DEFINE c == [op |-> op, scenario |-> x]
  <2>1. ExerciseCall(c)
    BY DEF ExerciseCall
  <2>2. Begin(h, c) /\ UNCHANGED trainerRows
    BY <1>2
  <2> HIDE DEF c
  <2> QED
    BY <2>1, <2>2, ReadKeeps
<1>3. ASSUME NEW s \in DOMAIN sessions, NEW format \in Formats,
             Decide(h, format, s) \/ Resume(h, s)
      PROVE  TrainerInv'
  <2>1. PICK x : x = sessions[s].current
    OBVIOUS
  <2>2. x # NoScenario /\ UNCHANGED trainerRows
    BY <1>3, <2>1 DEF Decide, Resume
  <2>3. \E op \in {"decide", "replace"} : Begin(h, [op |-> op, scenario |-> x])
    BY <1>3, <2>1 DEF Decide, Resume
  <2>4. x \in DOMAIN scenarios
    BY <2>1, <2>2, CurrentIsOwn
  <2> QED
    BY <1>2, <2>2, <2>3, <2>4
<1>4. ASSUME NEW s \in DOMAIN sessions, NEW x \in ScenariosOf(s), NEW supported \in BOOLEAN,
             NEW sequence, sequence = scenarios[x].sequence + 1,
             Begin(h, [op |-> "continue", session |-> s, scenario |-> x,
                       supported |-> supported, sequence |-> sequence]),
             UNCHANGED trainerRows
      PROVE  TrainerInv'
  <2> DEFINE c == [op |-> "continue", session |-> s, scenario |-> x,
                   supported |-> supported, sequence |-> sequence]
  <2>1. ExerciseCall(c)
    BY <1>4 DEF ExerciseCall
  <2>2. Begin(h, c)
    BY <1>4
  <2> HIDE DEF c
  <2> QED
    BY <1>4, <2>1, <2>2, ReadKeeps
<1>5. ASSUME NEW s \in DOMAIN sessions, NEW x, x = sessions[s].current, x \in decided
      PROVE  x \in ScenariosOf(s) /\ scenarios[x].sequence = Count(s)
  <2>1. x # NoScenario
    BY <1>5 DEF TrainerInv, TrainerTyped, NoScenario
  <2> QED
    BY <1>5, <2>1, CurrentIsOwn
<1>6. ASSUME NEW s \in DOMAIN sessions, PreflopNext(h, s) PROVE TrainerInv'
  <2>1. PICK x : x = sessions[s].current
    OBVIOUS
  <2>2. PICK supported \in BOOLEAN :
          Begin(h, [op |-> "continue", session |-> s, scenario |-> x,
                    supported |-> supported, sequence |-> Count(s) + 1])
    BY <1>6, <2>1 DEF PreflopNext
  <2>3. x \in decided /\ UNCHANGED trainerRows
    BY <1>6, <2>1 DEF PreflopNext
  <2>4. x \in ScenariosOf(s) /\ scenarios[x].sequence = Count(s)
    BY <1>5, <2>1, <2>3
  <2>5. PICK sequence : sequence = Count(s) + 1
    OBVIOUS
  <2>6. sequence = scenarios[x].sequence + 1
    BY <2>4, <2>5
  <2> QED
    BY <1>4, <2>2, <2>3, <2>4, <2>5, <2>6
<1>7. ASSUME NEW s \in DOMAIN sessions, PostflopNext(h, s) PROVE TrainerInv'
  <2>1. PICK x : x = sessions[s].current
    OBVIOUS
  <2>2. x \in decided /\ UNCHANGED trainerRows
    BY <1>7, <2>1 DEF PostflopNext
  <2>3. CASE Begin(h, [op |-> "complete", session |-> s])
    <3> DEFINE c == [op |-> "complete", session |-> s]
    <3>1. ExerciseCall(c)
      BY DEF ExerciseCall
    <3>2. Begin(h, c)
      BY <2>3
    <3> HIDE DEF c
    <3> QED
      BY <2>2, <3>1, <3>2, ReadKeeps
  <2>4. CASE Begin(h, [op |-> "continue", session |-> s, scenario |-> x,
                       supported |-> FALSE, sequence |-> scenarios[x].sequence + 1])
    <3>1. x \in ScenariosOf(s)
      BY <1>5, <2>1, <2>2
    <3>2. PICK sequence : sequence = scenarios[x].sequence + 1
      OBVIOUS
    <3>3. PICK supported \in BOOLEAN : supported = FALSE
      OBVIOUS
    <3> QED
      BY <1>4, <2>2, <2>4, <3>1, <3>2, <3>3
  <2> QED
    BY <1>7, <2>1, <2>3, <2>4 DEF PostflopNext
<1>8. "PREFLOP" \in Formats
  BY DEF Formats
<1> QED
  BY <1>1, <1>3, <1>6, <1>7, <1>8

\* A request that finds that it has nothing to write.
LEMMA NothingEntered ==
  ASSUME TrainerInv, NEW h \in Handlers, UNCHANGED <<sessions, scenarios, decided>>, Finish(h)
  PROVE  TrainerInv'
<1>1. RowsInv /\ UNCHANGED <<sessions, scenarios>> /\ decided' \subseteq DOMAIN scenarios
  BY DEF TrainerInv, RowsInv, TrainerTyped
<1>2. RowsInv' /\ \A d : ExerciseCall(d) => ExerciseCall(d)'
  BY <1>1, RowsUnchanged
<1> QED
  BY <1>2, ExerciseCallEnds DEF TrainerInv, RowsInv

\* The writes that add a scenario.
LEMMA CreateSessionKeeps ==
  ASSUME TrainerInv, NEW h \in Handlers, CreateSession(h)
  PROVE  TrainerInv'
<1>1. PICK s : s = Len(sessions) + 1
  OBVIOUS
<1>2. PICK format : format = calls[h].format
  OBVIOUS
<1>0. CASE ~NoneActive
  BY <1>0, NothingEntered DEF CreateSession
<1> SUFFICES ASSUME NoneActive PROVE TrainerInv'
  BY <1>0
<1>3. PICK supported \in {FALSE, format = "PREFLOP"} :
        scenarios' = Append(scenarios, Scenario(s, 1, supported, First))
  BY <1>1, <1>2 DEF CreateSession
<1>4. format \in Formats
  BY <1>2 DEF CreateSession, TrainerInv, TrainerCalls, ExerciseCall
<1> DEFINE e == Scenario(s, 1, supported, First)
           row == [format |-> format, status |-> "ACTIVE", current |-> Len(scenarios) + 1]
<1>5. Len(scenarios) \in Nat
  BY DEF TrainerInv, TrainerTyped
<1>6. row \in Session /\ row.current = Len(scenarios) + 1
  BY <1>4, <1>5 DEF Session
<1>7. sessions' = Append(sessions, row) /\ decided' = decided /\ Finish(h)
  BY <1>1, <1>2 DEF CreateSession
<1> HIDE DEF row
<1>8. /\ sessions' \in Seq(Session)
      /\ DOMAIN sessions' = (DOMAIN sessions) \cup {s} /\ s \notin DOMAIN sessions
      /\ sessions'[s] = row /\ \A t \in DOMAIN sessions : sessions'[t] = sessions[t]
      /\ s \in Nat
  BY <1>1, <1>6, <1>7, AppendIs DEF TrainerInv, TrainerTyped
<1>9. ScenariosOf(s) = {}
  BY <1>8 DEF ScenariosOf, TrainerInv, TrainerTyped
<1>10. Count(s) = 0 /\ NumberedIn(s)
  BY <1>9, FS_EmptySet DEF Count, NumberedIn
<1>11. /\ e \in Exercise /\ e.session = s /\ e.sequence = Count(s) + 1 /\ ~(e.from > 0)
  <2>1. e = [session |-> s, sequence |-> 1, supported |-> supported, from |-> 0]
    BY DEF Scenario, First
  <2>2. supported \in BOOLEAN
    OBVIOUS
  <2> HIDE DEF e
  <2>3. e \in Exercise /\ e.session = s /\ e.sequence = 1 /\ e.from = 0
    BY <1>8, <2>1, <2>2 DEF Exercise
  <2> QED
    BY <1>10, <2>3
<1>12. Adds(s, e)
  <2>1. scenarios' = Append(scenarios, e) /\ sessions'[s].current = Len(scenarios) + 1
    BY <1>3, <1>6, <1>8
  <2> HIDE DEF e
  <2> QED
    BY <1>7, <1>8, <1>10, <1>11, <2>1 DEF Adds
<1> HIDE DEF e
<1>13. RowsInv' /\ \A c : ExerciseCall(c) => ExerciseCall(c)'
  BY <1>8, <1>11, <1>12, ScenarioAdded DEF TrainerInv, RowsInv
<1>14. CallsAreAFunction' /\ TrainerCalls'
  BY <1>7, <1>13, ExerciseCallEnds
<1> QED
  BY <1>13, <1>14 DEF TrainerInv, RowsInv

\* A session goes on to a new scenario, whose number is the next.
LEMMA EnterKeeps ==
  ASSUME TrainerInv, NEW h \in Handlers, NEW s \in DOMAIN sessions,
         NEW sequence, NEW supported \in BOOLEAN, NEW from \in Int,
         sequence = Count(s) + 1,
         from > 0 => from \in ScenariosOf(s) /\ sequence = scenarios[from].sequence + 1,
         Enter(s, sequence, supported, from), decided' = decided, Finish(h)
  PROVE  TrainerInv'
<1> DEFINE e == Scenario(s, sequence, supported, from)
           row == [sessions[s] EXCEPT !.current = Len(scenarios) + 1]
<1>1. Len(scenarios) \in Nat /\ sessions[s] \in Session /\ s \in Nat
  BY DEF TrainerInv, TrainerTyped
<1>2. row \in Session /\ row.current = Len(scenarios) + 1
  BY <1>1 DEF Session
<1>3. sessions' = [sessions EXCEPT ![s] = row] /\ scenarios' = Append(scenarios, e)
  BY DEF Enter
<1> HIDE DEF row
<1>4. /\ sessions' \in Seq(Session) /\ DOMAIN sessions' = DOMAIN sessions
      /\ sessions'[s] = row
      /\ \A t \in DOMAIN sessions : t # s => sessions'[t] = sessions[t]
  BY <1>2, <1>3 DEF TrainerInv, TrainerTyped
<1>5. NumberedIn(s) /\ Count(s) \in Nat
  BY FS_CardinalityType DEF TrainerInv, Numbered, NumberedIn, Count
<1>6. /\ e \in Exercise /\ e.session = s /\ e.sequence = sequence /\ e.from = from
  BY <1>1, <1>5 DEF Scenario, Exercise
<1> HIDE DEF e
<1>7. Adds(s, e)
  BY <1>2, <1>3, <1>4, <1>5, <1>6 DEF Adds
<1>8. RowsInv' /\ \A c : ExerciseCall(c) => ExerciseCall(c)'
  BY <1>1, <1>6, <1>7, ScenarioAdded DEF TrainerInv, RowsInv
<1>9. CallsAreAFunction' /\ TrainerCalls'
  BY <1>8, ExerciseCallEnds
<1> QED
  BY <1>8, <1>9 DEF TrainerInv, RowsInv

\* The replacement of a scenario has the next number, which is counted now.
LEMMA ReplaceKeeps ==
  ASSUME TrainerInv, NEW h \in Handlers, ReplaceScenario(h)
  PROVE  TrainerInv'
<1>1. PICK s : s = scenarios[calls[h].scenario].session
  OBVIOUS
<1>2. s \in DOMAIN sessions /\ Finish(h) /\ decided' = decided
  BY <1>1 DEF ReplaceScenario, TrainerInv, TrainerCalls, ExerciseCall, TrainerTyped
<1>3. CASE UNCHANGED <<sessions, scenarios>>
  BY <1>2, <1>3, NothingEntered
<1>4. CASE Enter(s, Count(s) + 1, TRUE, Replacing)
  <2>1. PICK sequence, from, supported : 
          sequence = Count(s) + 1 /\ from = Replacing /\ supported = TRUE
    OBVIOUS
  <2>2. from \in Int /\ ~(from > 0) /\ supported \in BOOLEAN
    BY <2>1 DEF Replacing
  <2>3. Enter(s, sequence, supported, from)
    BY <1>4, <2>1
  <2> QED
    BY <1>2, <2>1, <2>2, <2>3, EnterKeeps
<1> QED
  BY <1>1, <1>3, <1>4 DEF ReplaceScenario

\* A number that is free is the next, though it was counted earlier.
LEMMA ContinueKeeps ==
  ASSUME TrainerInv, NEW h \in Handlers, ContinueSession(h)
  PROVE  TrainerInv'
<1>1. PICK c : c = calls[h]
  OBVIOUS
<1>2. c.op = "continue" /\ Finish(h) /\ decided' = decided
  BY <1>1 DEF ContinueSession
<1>3. /\ c.session \in DOMAIN sessions /\ c.supported \in BOOLEAN
      /\ c.scenario \in ScenariosOf(c.session)
      /\ c.sequence = scenarios[c.scenario].sequence + 1
  BY <1>1, <1>2 DEF TrainerInv, TrainerCalls, ExerciseCall
<1>4. CASE UNCHANGED <<sessions, scenarios>>
  BY <1>2, <1>4, NothingEntered
<1>5. CASE /\ SequenceIsFree(c.session, c.sequence)
           /\ Enter(c.session, c.sequence, c.supported, c.scenario)
  <2>1. PICK s, x, count : s = c.session /\ x = c.scenario /\ count = Count(s)
    OBVIOUS
  <2>2. NumberedIn(s)
    BY <1>3, <2>1 DEF TrainerInv, Numbered
  <2>3. count \in Nat
    BY <2>1, <2>2, FS_CardinalityType DEF NumberedIn, Count
  <2>4. scenarios[x].sequence \in 1 .. count
    BY <1>3, <2>1, <2>2 DEF NumberedIn
  <2>5. c.sequence \notin 1 .. count
    BY <1>5, <2>1, <2>2 DEF SequenceIsFree, NumberedIn
  <2>6. c.sequence = count + 1
    BY <1>3, <2>1, <2>3, <2>4, <2>5
  <2>7. x \in Int
    BY <1>3, <2>1 DEF ScenariosOf, TrainerInv, TrainerTyped
  <2>8. PICK sequence, supported : sequence = c.sequence /\ supported = c.supported
    OBVIOUS
  <2>9. /\ Enter(s, sequence, supported, x) /\ sequence = Count(s) + 1
        /\ x \in ScenariosOf(s) /\ sequence = scenarios[x].sequence + 1
        /\ s \in DOMAIN sessions /\ supported \in BOOLEAN
    BY <1>3, <1>5, <2>1, <2>6, <2>8
  <2> QED
    BY <1>2, <2>7, <2>9, EnterKeeps
<1> QED
  BY <1>1, <1>4, <1>5 DEF ContinueSession, NextSequence

\* The writes that add none.
LEMMA InsertDecisionKeeps ==
  ASSUME TrainerInv, NEW h \in Handlers, InsertDecision(h)
  PROVE  TrainerInv'
<1>1. RowsInv /\ UNCHANGED <<sessions, scenarios>> /\ decided' \subseteq DOMAIN scenarios
  BY DEF InsertDecision, TrainerInv, RowsInv, TrainerTyped, TrainerCalls, ExerciseCall
<1>2. RowsInv' /\ \A d : ExerciseCall(d) => ExerciseCall(d)'
  BY <1>1, RowsUnchanged
<1>3. CallsAreAFunction' /\ TrainerCalls'
  BY <1>2, ExerciseCallEnds DEF InsertDecision
<1> QED
  BY <1>2, <1>3 DEF TrainerInv, RowsInv

\* A session that is over is at no scenario.
LEMMA CompleteKeeps ==
  ASSUME TrainerInv, NEW h \in Handlers, CompleteSession(h)
  PROVE  TrainerInv'
<1>1. PICK s : s = calls[h].session
  OBVIOUS
<1>2. /\ s \in DOMAIN sessions /\ Finish(h) /\ UNCHANGED <<scenarios, decided>>
  BY <1>1 DEF CompleteSession, TrainerInv, TrainerCalls, ExerciseCall
<1>3. CASE sessions' = sessions
  BY <1>2, <1>3, NothingEntered
<1>4. CASE sessions' = [sessions EXCEPT ![s].status = "COMPLETED", ![s].current = NoScenario]
  <2> DEFINE row == [sessions[s] EXCEPT !.status = "COMPLETED", !.current = NoScenario]
  <2>1. sessions[s] \in Session
    BY <1>2 DEF TrainerInv, TrainerTyped
  <2>2. row \in Session /\ row.current = NoScenario
    BY <2>1 DEF Session, NoScenario
  <2>3. sessions' = [sessions EXCEPT ![s] = row]
    BY <1>2, <1>4, <2>1 DEF TrainerInv, TrainerTyped, Session
  <2> HIDE DEF row
  <2>4. /\ sessions' \in Seq(Session) /\ DOMAIN sessions' = DOMAIN sessions
        /\ sessions'[s] = row
        /\ \A t \in DOMAIN sessions : t # s => sessions'[t] = sessions[t]
    BY <1>2, <2>2, <2>3 DEF TrainerInv, TrainerTyped
  <2>5. \A t : ScenariosOf(t)' = ScenariosOf(t) /\ Count(t)' = Count(t)
    BY <1>2 DEF ScenariosOf, Count
  <2>6. TrainerTyped' /\ Numbered' /\ FromIsBefore'
    BY <1>2, <2>4, <2>5 DEF TrainerInv, TrainerTyped, Numbered, NumberedIn, FromIsBefore
  <2>7. AtTheLast'
    BY <1>2, <2>2, <2>4, <2>5 DEF TrainerInv, AtTheLast
  <2>8. \A d : ExerciseCall(d) => ExerciseCall(d)'
    BY <1>2, <2>4, <2>5 DEF ExerciseCall
  <2> QED
    BY <1>2, <2>6, <2>7, <2>8, ExerciseCallEnds DEF TrainerInv
<1> QED
  BY <1>1, <1>3, <1>4 DEF CompleteSession

\* A decision moves its session on once, however many requests ask for the next
\* scenario and whatever they had read (next, postflopNext, continueSession),
\* and the latest decision is that of the current scenario (toResponse).
THEOREM SessionsMoveOnOnce == TrainerSpec => []OneStepPerDecision
<1>1. ServerInit /\ TrainerInit => TrainerInv
  <2> SUFFICES ASSUME ServerInit, TrainerInit PROVE TrainerInv
    OBVIOUS
  <2>1. CallsAreAFunction /\ \A h \in Handlers : calls[h].op = "idle"
    BY FirstCalls DEF Idle
  <2>2. TrainerCalls
    BY <2>1 DEF TrainerCalls, ExerciseCall
  <2>3. /\ sessions \in Seq(Session) /\ scenarios \in Seq(Exercise)
        /\ DOMAIN sessions = {} /\ DOMAIN scenarios = {} /\ decided = {}
    BY DEF TrainerInit
  <2> QED
    BY <2>1, <2>2, <2>3 DEF TrainerInv, TrainerTyped, Numbered, AtTheLast, FromIsBefore
<1>2. TrainerInv /\ [TrainerNext]_trainerVars => TrainerInv'
  <2> SUFFICES ASSUME TrainerInv, [TrainerNext]_trainerVars PROVE TrainerInv'
    OBVIOUS
  <2>1. CASE UNCHANGED trainerVars
    <3>1. RowsInv /\ UNCHANGED <<sessions, scenarios, calls>> /\ decided' \subseteq DOMAIN scenarios
      BY <2>1 DEF trainerVars, trainerRows, TrainerInv, RowsInv, TrainerTyped
    <3>2. RowsInv' /\ \A d : ExerciseCall(d) => ExerciseCall(d)'
      BY <3>1, RowsUnchanged
    <3>3. CallsAreAFunction' /\ TrainerCalls'
      BY <3>1, <3>2 DEF TrainerInv, CallsAreAFunction, TrainerCalls, ExerciseCall, ScenariosOf
    <3> QED
      BY <3>2, <3>3 DEF TrainerInv, RowsInv
  <2>2. ASSUME NEW h \in Handlers,
               \/ CreateSession(h) \/ ReplaceScenario(h) \/ InsertDecision(h)
               \/ ContinueSession(h) \/ CompleteSession(h)
        PROVE  TrainerInv'
    BY <2>2, CreateSessionKeeps, ReplaceKeeps, InsertDecisionKeeps, ContinueKeeps, CompleteKeeps
  <2> QED
    BY <2>1, <2>2, BeginsKeep DEF TrainerNext, Formats
<1>3. TrainerInv => OneStepPerDecision
  BY OneStepFollows
<1> QED
  BY <1>1, <1>2, <1>3, PTL DEF TrainerSpec

-----------------------------------------------------------------------------
(* The versions of a strategy *)

svars == <<versions, calls>>

StrategySpec == ServerInit /\ StrategyInit /\ [][StrategyNext]_svars

-----------------------------------------------------------------------------
(* The inductive invariant *)

Version ==
  [status : {"DRAFT", "PUBLISHED", "RETIRED"}, revision : Nat, key : Contexts,
   active : Contexts \cup {NoKey}, rows : RowSets \cup {NoRows}, context : Contexts,
   report : {"none", "PASSED", "FAILED"}]

EditCall   == [op : {"edit"}, id : Nat, revision : Nat, rows : RowSets \cup {Kept},
               context : Contexts]
SaveCall   == [op : {"save"}, id : Nat, report : {"PASSED", "FAILED"}]
ReadCall   == [op : {"publish", "supersede", "retire"}, id : Nat, revision : Nat]
CommitCall == [op : {"commit"}, id : Nat, old : SUBSET Nat]
StrategyCall == {Idle} \cup EditCall \cup SaveCall \cup ReadCall \cup CommitCall

StrategyTyped == versions \in Seq(Version) /\ calls \in [Handlers -> StrategyCall]

\* Every request under way is about a version there is.
CallsAreOfVersions == \A h \in Handlers : calls[h] # Idle => calls[h].id \in DOMAIN versions

StrategyInv == StrategyTyped /\ CallsAreOfVersions /\ OneActiveVersion

-----------------------------------------------------------------------------

\* What changes a version of a given number, and nothing else, leaves the
\* versions typed.
LEMMA OneVersionChanges ==
  ASSUME versions \in Seq(Version), NEW v \in DOMAIN versions, NEW row \in Version
  PROVE  /\ [versions EXCEPT ![v] = row] \in Seq(Version)
         /\ DOMAIN [versions EXCEPT ![v] = row] = DOMAIN versions
  OBVIOUS

\* A version that is superseded keeps everything but its status and active key.
LEMMA RetiredRow ==
  ASSUME NEW row \in Version
  PROVE  LET retired == [row EXCEPT !.status = "RETIRED", !.active = NoKey]
         IN  /\ retired \in Version
             /\ retired.status = "RETIRED" /\ retired.active = NoKey
             /\ retired.key = row.key /\ retired.rows = row.rows /\ retired.context = row.context
  BY DEF Version

LEMMA SupersededIsTyped ==
  ASSUME versions \in Seq(Version), NEW old
  PROVE  /\ Superseded(old) \in Seq(Version)
         /\ DOMAIN Superseded(old) = DOMAIN versions
         /\ \A w \in DOMAIN versions :
              /\ Superseded(old)[w].key = versions[w].key
              /\ Superseded(old)[w].rows = versions[w].rows
              /\ Superseded(old)[w].context = versions[w].context
              /\ w \notin old => Superseded(old)[w] = versions[w]
              /\ w \in old => /\ Superseded(old)[w].status = "RETIRED"
                              /\ Superseded(old)[w].active = NoKey
<1>1. DOMAIN versions = 1 .. Len(versions) /\ Len(versions) \in Nat
  OBVIOUS
<1>2. \A w \in DOMAIN versions : versions[w] \in Version
  OBVIOUS
<1>3. ASSUME NEW w \in DOMAIN versions
      PROVE  Superseded(old)[w] =
               IF w \in old THEN [versions[w] EXCEPT !.status = "RETIRED", !.active = NoKey]
               ELSE versions[w]
  BY Zenon DEF Superseded
<1>4. DOMAIN Superseded(old) = DOMAIN versions
  BY Zenon DEF Superseded
<1>5. \A w \in DOMAIN versions : Superseded(old)[w] \in Version
  BY <1>2, <1>3, RetiredRow
<1>6. Superseded(old) \in Seq(Version)
  <2> DEFINE f == Superseded(old)
  <2>1. f = [w \in 1 .. Len(versions) |-> f[w]]
    BY <1>1, Zenon DEF Superseded
  <2>2. \A w \in 1 .. Len(versions) : f[w] \in Version
    BY <1>1, <1>5
  <2> HIDE DEF f
  <2>3. f \in Seq(Version)
    BY <1>1, <2>1, <2>2
  <2> QED BY <2>3 DEF f
<1>7. ASSUME NEW w \in DOMAIN versions
      PROVE  /\ Superseded(old)[w].key = versions[w].key
             /\ Superseded(old)[w].rows = versions[w].rows
             /\ Superseded(old)[w].context = versions[w].context
             /\ w \notin old => Superseded(old)[w] = versions[w]
             /\ w \in old => /\ Superseded(old)[w].status = "RETIRED"
                             /\ Superseded(old)[w].active = NoKey
  <2>1. CASE w \in old
    <3>1. Superseded(old)[w] = [versions[w] EXCEPT !.status = "RETIRED", !.active = NoKey]
      BY <1>3, <2>1
    <3>2. versions[w] \in Version
      BY <1>2
    <3> QED BY <2>1, <3>1, <3>2, RetiredRow
  <2>2. CASE w \notin old
    BY <1>3, <2>2
  <2> QED BY <2>1, <2>2
<1> QED BY <1>4, <1>6, <1>7

\* So does a version that is made public, which gets the key it is compatible with.
LEMMA PublicRow ==
  ASSUME NEW row \in Version
  PROVE  /\ MadePublic(row) \in Version
         /\ MadePublic(row).status = "PUBLISHED" /\ MadePublic(row).active = row.key
         /\ MadePublic(row).key = row.key
         /\ MadePublic(row).rows = row.rows /\ MadePublic(row).context = row.context
  BY DEF MadePublic, Version

-----------------------------------------------------------------------------
(* The steps *)

LEMMA InitHolds == ServerInit /\ StrategyInit => StrategyInv
<1> SUFFICES ASSUME ServerInit, StrategyInit PROVE StrategyInv
  OBVIOUS
<1>1. versions = << >> /\ DOMAIN versions = {} /\ versions \in Seq(Version)
  BY DEF StrategyInit
<1>2. \A h \in Handlers : calls[h] = Idle
  BY DEF ServerInit
<1>3. calls \in [Handlers -> StrategyCall]
  BY DEF ServerInit, StrategyCall
<1> QED BY <1>1, <1>2, <1>3 DEF StrategyInv, StrategyTyped, CallsAreOfVersions, OneActiveVersion, ActiveVersions

\* A call that begins, moves on or ends about a version there is.
LEMMA CallChanges ==
  ASSUME StrategyInv, NEW h \in Handlers, NEW c \in StrategyCall,
         c # Idle => c.id \in DOMAIN versions,
         Continue(h, c), UNCHANGED versions
  PROVE  StrategyInv'
<1>1. calls' = [calls EXCEPT ![h] = c]
  BY DEF Continue
<1>2. calls \in [Handlers -> StrategyCall]
  BY DEF StrategyInv, StrategyTyped
<1>3. calls' \in [Handlers -> StrategyCall]
  BY <1>1, <1>2
<1>4. ASSUME NEW g \in Handlers, calls'[g] # Idle
      PROVE  calls'[g].id \in DOMAIN versions'
  <2>1. CASE g = h
    BY <1>1, <1>2, <1>4, <2>1
  <2>2. CASE g # h
    BY <1>1, <1>2, <1>4, <2>2 DEF StrategyInv, CallsAreOfVersions
  <2> QED BY <2>1, <2>2
<1>5. OneActiveVersion'
  BY DEF StrategyInv, OneActiveVersion, ActiveVersions, Published
<1> QED BY <1>3, <1>4, <1>5 DEF StrategyInv, StrategyTyped, CallsAreOfVersions

\* A call ends with a change that keeps the versions there are.
LEMMA CallEnds ==
  ASSUME StrategyInv, NEW h \in Handlers, Finish(h),
         versions' \in Seq(Version), DOMAIN versions' = DOMAIN versions
  PROVE  StrategyTyped' /\ CallsAreOfVersions'
<1>1. calls' = [calls EXCEPT ![h] = Idle]
  BY DEF Finish, Continue
<1>2. calls \in [Handlers -> StrategyCall]
  BY DEF StrategyInv, StrategyTyped
<1>3. calls' \in [Handlers -> StrategyCall]
  BY <1>1, <1>2 DEF StrategyCall
<1>4. ASSUME NEW g \in Handlers, calls'[g] # Idle
      PROVE  calls'[g].id \in DOMAIN versions'
  BY <1>1, <1>2, <1>4 DEF StrategyInv, CallsAreOfVersions
<1> QED BY <1>3, <1>4 DEF StrategyTyped, CallsAreOfVersions

\* What leaves the status and the keys of every version alone keeps one active.
LEMMA SameStatusKeepsActive ==
  ASSUME OneActiveVersion, DOMAIN versions' = DOMAIN versions,
         \A v \in DOMAIN versions : /\ versions'[v].status = versions[v].status
                                    /\ versions'[v].key = versions[v].key
                                    /\ versions'[v].active = versions[v].active
  PROVE  OneActiveVersion'
  BY DEF OneActiveVersion, ActiveVersions, Published

LEMMA CreateDraftKeeps ==
  ASSUME StrategyInv, NEW key \in Contexts, CreateDraft(key)
  PROVE  StrategyInv'
<1> DEFINE row == NewDraft(key)
           n   == Len(versions)
<1>1. versions \in Seq(Version) /\ n \in Nat /\ DOMAIN versions = 1 .. n
  BY DEF StrategyInv, StrategyTyped
<1>2. row \in Version /\ row.status = "DRAFT" /\ row.active = NoKey
  BY DEF NewDraft, Version
<1>3. versions' = Append(versions, row)
  BY DEF CreateDraft
<1> HIDE DEF row
<1>4. /\ versions' \in Seq(Version) /\ DOMAIN versions' = 1 .. n + 1
      /\ versions'[n + 1] = row
      /\ \A v \in DOMAIN versions : versions'[v] = versions[v]
  BY <1>1, <1>2, <1>3
<1>5. StrategyTyped' /\ CallsAreOfVersions'
  BY <1>1, <1>4 DEF StrategyInv, StrategyTyped, CallsAreOfVersions, CreateDraft
<1>6. OneActiveVersion'
  BY <1>1, <1>2, <1>4 DEF StrategyInv, OneActiveVersion, ActiveVersions, Published
<1> QED BY <1>5, <1>6 DEF StrategyInv

LEMMA EditKeeps ==
  ASSUME StrategyInv, NEW h \in Handlers, NEW v \in DOMAIN versions,
         NEW rows \in RowSets \cup {Kept}, NEW context \in Contexts,
         Begin(h, Edit(v, rows, context)), UNCHANGED versions
  PROVE  StrategyInv'
<1>1. versions[v] \in Version /\ v \in Nat
  BY DEF StrategyInv, StrategyTyped
<1>2. Edit(v, rows, context) \in EditCall /\ Edit(v, rows, context).id = v
  BY <1>1 DEF Edit, EditCall, Version
<1> QED BY <1>2, CallChanges DEF Begin, StrategyCall

\* An edit changes what a version says, and neither its status nor its keys.
Edited(row, n, context, rows) == [row EXCEPT !.revision = n, !.context = context, !.rows = rows]

LEMMA EditedRow ==
  ASSUME NEW row \in Version, NEW n \in Nat,
         NEW context \in Contexts, NEW rows \in RowSets \cup {NoRows}
  PROVE  /\ Edited(row, n, context, rows) \in Version
         /\ Edited(row, n, context, rows).status = row.status
         /\ Edited(row, n, context, rows).key = row.key
         /\ Edited(row, n, context, rows).active = row.active
<1> DEFINE numbered == [row EXCEPT !.revision = n, !.rows = rows]
           edited   == Edited(row, n, context, rows)
<1>1. numbered \in Version
  BY DEF Version
<1>2. edited = [numbered EXCEPT !.context = context]
  BY DEF Version, Edited
<1>3. [numbered EXCEPT !.context = context] \in Version
  BY <1>1 DEF Version
<1>4. edited.status = row.status /\ edited.key = row.key /\ edited.active = row.active
  BY DEF Version, Edited
<1> QED BY <1>1, <1>2, <1>3, <1>4

LEMMA EditWriteKeeps ==
  ASSUME StrategyInv, NEW h \in Handlers, EditWrite(h)
  PROVE  StrategyInv'
<1> DEFINE c == calls[h]
           row == [versions[c.id] EXCEPT
                     !.revision = @ + 1, !.context = c.context,
                     !.rows = IF c.rows = Kept THEN @ ELSE c.rows]
<1>1. c.op = "edit" /\ Finish(h) /\ versions \in Seq(Version)
  BY DEF EditWrite, StrategyInv, StrategyTyped
<1>2. c \in EditCall
  BY <1>1 DEF StrategyInv, StrategyTyped, StrategyCall, Idle, SaveCall, ReadCall, CommitCall
<1>3. CASE ~MayUpdate(c)
  <2>1. versions' = versions
    BY <1>3 DEF EditWrite
  <2> QED BY <1>1, <2>1, CallEnds, SameStatusKeepsActive DEF StrategyInv
<1>4. CASE MayUpdate(c)
  <2>1. c.id \in DOMAIN versions
    BY <1>1 DEF StrategyInv, CallsAreOfVersions, Idle
  <2>2. versions' = [versions EXCEPT ![c.id] = row]
    BY <1>1, <1>4, <2>1 DEF EditWrite
  <2>3. /\ row \in Version /\ row.status = versions[c.id].status
        /\ row.key = versions[c.id].key /\ row.active = versions[c.id].active
    <3> DEFINE old  == versions[c.id]
               next == old.revision + 1
               context == c.context
               rows == IF c.rows = Kept THEN old.rows ELSE c.rows
    <3>1. old \in Version
      BY <1>1, <2>1
    <3>2. next \in Nat /\ context \in Contexts /\ rows \in RowSets \cup {NoRows}
      BY <1>2, <3>1 DEF Version, EditCall
    <3>3. row = Edited(old, next, context, rows)
      BY DEF Edited
    <3> HIDE DEF next, context, rows, row, old
    <3>4. /\ row \in Version /\ row.status = old.status
          /\ row.key = old.key /\ row.active = old.active
      BY <3>1, <3>2, <3>3, EditedRow
    <3> QED BY <3>4 DEF old
  <2> HIDE DEF row
  <2>4. versions' \in Seq(Version) /\ DOMAIN versions' = DOMAIN versions
    BY <1>1, <2>1, <2>2, <2>3, OneVersionChanges
  <2>5. OneActiveVersion'
    BY <1>1, <2>1, <2>2, <2>3, <2>4, SameStatusKeepsActive DEF StrategyInv
  <2> QED BY <1>1, <2>4, <2>5, CallEnds DEF StrategyInv
<1> QED BY <1>3, <1>4

LEMMA SaveValidationKeeps ==
  ASSUME StrategyInv, NEW h \in Handlers, SaveValidation(h)
  PROVE  StrategyInv'
<1> DEFINE c == calls[h]
           row == [versions[c.id] EXCEPT !.report = c.report]
<1>1. c.op = "save" /\ Finish(h) /\ versions \in Seq(Version)
  BY DEF SaveValidation, StrategyInv, StrategyTyped
<1>2. c \in SaveCall
  BY <1>1 DEF StrategyInv, StrategyTyped, StrategyCall, Idle, EditCall, ReadCall, CommitCall
<1>3. c.id \in DOMAIN versions
  BY <1>1 DEF StrategyInv, CallsAreOfVersions, Idle
<1>4. versions[c.id] \in Version /\ c.report \in {"PASSED", "FAILED"}
  BY <1>1, <1>2, <1>3 DEF SaveCall
<1>5. /\ row \in Version /\ row.status = versions[c.id].status
      /\ row.key = versions[c.id].key /\ row.active = versions[c.id].active
  BY <1>4 DEF Version
<1>6. versions' = [versions EXCEPT ![c.id] = row]
  BY <1>1, <1>3 DEF SaveValidation
<1> HIDE DEF row
<1>7. versions' \in Seq(Version) /\ DOMAIN versions' = DOMAIN versions
  BY <1>1, <1>3, <1>5, <1>6, OneVersionChanges
<1>8. OneActiveVersion'
  BY <1>1, <1>3, <1>5, <1>6, <1>7, SameStatusKeepsActive DEF StrategyInv
<1> QED BY <1>1, <1>7, <1>8, CallEnds DEF StrategyInv

LEMMA ValidateKeeps ==
  ASSUME StrategyInv, NEW h \in Handlers, NEW v \in DOMAIN versions, Validate(h, v)
  PROVE  StrategyInv'
<1> DEFINE c == [op |-> "save", id |-> v,
                 report |-> Report(versions[v].rows, versions[v].context)]
<1>1. v \in Nat
  BY DEF StrategyInv, StrategyTyped
<1>2. c \in SaveCall /\ c.id = v
  BY <1>1 DEF SaveCall, Report
<1>3. Continue(h, c) /\ UNCHANGED versions
  BY DEF Validate, Begin
<1> HIDE DEF c
<1> QED BY <1>2, <1>3, CallChanges DEF StrategyCall

\* Publish and Retire read a version.
LEMMA VersionReadKeeps ==
  ASSUME StrategyInv, NEW h \in Handlers, NEW v \in DOMAIN versions,
         Publish(h, v) \/ Retire(h, v)
  PROVE  StrategyInv'
<1>1. versions[v] \in Version /\ v \in Nat
  BY DEF StrategyInv, StrategyTyped
<1>2. ASSUME NEW op \in {"publish", "retire"}
      PROVE  Read(v, op) \in ReadCall /\ Read(v, op).id = v
  BY <1>1 DEF Read, ReadCall, Version
<1>3. \E op \in {"publish", "retire"} : Continue(h, Read(v, op)) /\ UNCHANGED versions
  BY DEF Publish, Retire, Begin
<1> QED BY <1>2, <1>3, CallChanges DEF StrategyCall

LEMMA PublishReadKeeps ==
  ASSUME StrategyInv, NEW h \in Handlers, PublishRead(h)
  PROVE  StrategyInv'
<1> DEFINE c == calls[h]
           d == [c EXCEPT !.op = "supersede"]
<1>1. c.op = "publish" /\ UNCHANGED versions /\ versions \in Seq(Version)
  BY DEF PublishRead, StrategyInv, StrategyTyped
<1>2. c \in ReadCall /\ c.id \in DOMAIN versions
  BY <1>1 DEF StrategyInv, StrategyTyped, CallsAreOfVersions, StrategyCall, Idle, EditCall, SaveCall, CommitCall
<1>3. d \in ReadCall /\ d.id = c.id
  BY <1>2 DEF ReadCall
<1>4. CASE Continue(h, d)
  BY <1>1, <1>2, <1>3, <1>4, CallChanges DEF StrategyCall
<1>5. CASE Finish(h)
  BY <1>1, <1>5, CallEnds, SameStatusKeepsActive DEF StrategyInv
<1> QED BY <1>4, <1>5 DEF PublishRead

LEMMA SupersedeKeeps ==
  ASSUME StrategyInv, NEW h \in Handlers, Supersede(h)
  PROVE  StrategyInv'
<1> DEFINE old == {w \in DOMAIN versions :
                     Published(w) /\ versions[w].key = versions[calls[h].id].key}
           c   == [op |-> "commit", id |-> calls[h].id, old |-> old]
<1>1. calls[h].op = "supersede" /\ Continue(h, c) /\ UNCHANGED versions
  BY DEF Supersede
<1>2. calls[h].id \in DOMAIN versions /\ DOMAIN versions \subseteq Nat
  BY <1>1 DEF StrategyInv, StrategyTyped, CallsAreOfVersions, Idle
<1>3. old \in SUBSET Nat
  BY <1>2
<1> HIDE DEF old
<1>4. c \in CommitCall /\ c.id = calls[h].id
  BY <1>2, <1>3 DEF CommitCall
<1> HIDE DEF c
<1> QED BY <1>1, <1>2, <1>4, CallChanges DEF StrategyCall

\* The index refuses a second active version; superseding makes none.
LEMMA PublishCommitKeeps ==
  ASSUME StrategyInv, NEW h \in Handlers, PublishCommit(h)
  PROVE  StrategyInv'
<1> DEFINE c     == calls[h]
           row   == MadePublic(versions[c.id])
           after == [Superseded(c.old) EXCEPT ![c.id] = row]
<1>1. c.op = "commit" /\ Finish(h) /\ versions \in Seq(Version)
  BY DEF PublishCommit, StrategyInv, StrategyTyped
<1>2. c.id \in DOMAIN versions /\ versions[c.id] \in Version
  BY <1>1 DEF StrategyInv, CallsAreOfVersions, Idle
<1>3. CASE versions' = versions
  BY <1>1, <1>3, CallEnds, SameStatusKeepsActive DEF StrategyInv
<1>4. CASE /\ versions' = after
           /\ \A w \in DOMAIN after \ {c.id} :
                ~(after[w].active = after[c.id].active /\ after[w].active # NoKey)
  <2>1. /\ row \in Version /\ row.status = "PUBLISHED"
        /\ row.active = versions[c.id].key /\ row.key = versions[c.id].key
    BY <1>2, PublicRow
  <2> HIDE DEF row
  <2>2. /\ Superseded(c.old) \in Seq(Version)
        /\ DOMAIN Superseded(c.old) = DOMAIN versions
        /\ \A w \in DOMAIN versions :
             /\ Superseded(c.old)[w].key = versions[w].key
             /\ w \notin c.old => Superseded(c.old)[w] = versions[w]
             /\ w \in c.old => /\ Superseded(c.old)[w].status = "RETIRED"
                               /\ Superseded(c.old)[w].active = NoKey
    BY <1>1, SupersededIsTyped
  <2>3. /\ versions' \in Seq(Version) /\ DOMAIN versions' = DOMAIN versions
        /\ versions'[c.id] = row
        /\ \A w \in DOMAIN versions \ {c.id} : versions'[w] = Superseded(c.old)[w]
    BY <1>2, <1>4, <2>1, <2>2
  <2>4. ASSUME NEW w \in DOMAIN versions
        PROVE  versions'[w].active =
                 IF versions'[w].status = "PUBLISHED" THEN versions'[w].key ELSE NoKey
    BY <2>1, <2>2, <2>3 DEF StrategyInv, OneActiveVersion, ActiveVersions, Published
  <2>5. ASSUME NEW w \in DOMAIN versions \ {c.id}, versions'[w].status = "PUBLISHED"
        PROVE  /\ versions'[w].key # versions'[c.id].key
               /\ versions'[w] = versions[w]
    <3>0. versions'[w] \in Version
      BY <2>3
    <3>1. versions'[w].active = versions'[w].key /\ versions'[w].key \in Contexts
      BY <2>4, <2>5, <3>0 DEF Version
    <3>2. versions'[w].active # versions'[c.id].active
      BY <1>4, <2>3, <3>1, StrategyBounds
    <3> QED BY <2>1, <2>2, <2>3, <2>5, <3>1, <3>2
  <2>6. OneActiveVersion'
    BY <2>3, <2>4, <2>5 DEF StrategyInv, OneActiveVersion, ActiveVersions, Published
  <2> QED BY <1>1, <2>3, <2>6, CallEnds DEF StrategyInv
<1> QED BY <1>3, <1>4 DEF PublishCommit

LEMMA RetireWriteKeeps ==
  ASSUME StrategyInv, NEW h \in Handlers, RetireWrite(h)
  PROVE  StrategyInv'
<1> DEFINE old == {calls[h].id}
<1>1. /\ Finish(h) /\ versions \in Seq(Version)
      /\ versions' = Superseded(old)
  BY DEF RetireWrite, StrategyInv, StrategyTyped
<1>2. /\ versions' \in Seq(Version) /\ DOMAIN versions' = DOMAIN versions
      /\ \A w \in DOMAIN versions :
           /\ versions'[w].key = versions[w].key
           /\ w \notin old => versions'[w] = versions[w]
           /\ w \in old => versions'[w].status = "RETIRED" /\ versions'[w].active = NoKey
  BY <1>1, SupersededIsTyped
<1> HIDE DEF old
<1>3. OneActiveVersion'
  BY <1>2 DEF StrategyInv, OneActiveVersion, ActiveVersions, Published
<1> QED BY <1>1, <1>2, <1>3, CallEnds DEF StrategyInv

-----------------------------------------------------------------------------
(* The theorems *)

\* Every state has well formed versions, of which one per key is active.
THEOREM StrategyInductive == StrategySpec => []StrategyInv
<1>1. ASSUME StrategyInv, StrategyNext PROVE StrategyInv'
  <2>1. CASE \E key \in Contexts : CreateDraft(key)
    BY <2>1, <1>1, CreateDraftKeeps
  <2>2. ASSUME NEW h \in Handlers, NEW v \in DOMAIN versions, NEW rows \in RowSets,
               EditRows(h, v, rows)
        PROVE  StrategyInv'
    BY <1>1, <2>2, EditKeeps DEF EditRows
  <2>3. ASSUME NEW h \in Handlers, NEW v \in DOMAIN versions, EditMetadata(h, v)
        PROVE  StrategyInv'
    BY <1>1, <2>3, EditKeeps DEF EditMetadata
  <2> QED BY <1>1, <2>1, <2>2, <2>3, ValidateKeeps, VersionReadKeeps, EditWriteKeeps,
             SaveValidationKeeps, PublishReadKeeps, SupersedeKeeps, PublishCommitKeeps,
             RetireWriteKeeps DEF StrategyNext
<1>2. ASSUME StrategyInv, UNCHANGED svars PROVE StrategyInv'
  BY <1>2 DEF svars, StrategyInv, StrategyTyped, CallsAreOfVersions, OneActiveVersion, ActiveVersions, Published
<1> QED BY <1>1, <1>2, InitHolds, PTL DEF StrategySpec

\* One compatibility key never has two published versions, and the column with
\* the unique index tells which it is, for any number of editors, versions and
\* keys, whatever is published and retired at once (publish; spec 012, FR-009).
THEOREM AtMostOneActive == StrategySpec => []OneActiveVersion
<1>1. StrategyInv => OneActiveVersion
  BY DEF StrategyInv
<1> QED BY <1>1, StrategyInductive, PTL

-----------------------------------------------------------------------------
(* What is public never changes *)

Frozen(v) ==
  versions[v].status # "DRAFT" =>
    versions'[v].rows = versions[v].rows /\ versions'[v].context = versions[v].context

LEMMA CreateDraftFreezes ==
  ASSUME StrategyInv, NEW key \in Contexts, CreateDraft(key), NEW v \in DOMAIN versions
  PROVE  Frozen(v)
<1>1. versions'[v] = versions[v]
  BY DEF CreateDraft, StrategyInv, StrategyTyped
<1> QED BY <1>1 DEF Frozen

\* The write looks at the status again, whatever the edit had read.
LEMMA EditWriteFreezes ==
  ASSUME StrategyInv, NEW h \in Handlers, EditWrite(h), NEW v \in DOMAIN versions
  PROVE  Frozen(v)
<1>1. versions \in Seq(Version)
  BY DEF StrategyInv, StrategyTyped
<1>2. CASE v # calls[h].id \/ ~MayUpdate(calls[h])
  <2>1. versions'[v] = versions[v]
    BY <1>1, <1>2 DEF EditWrite
  <2> QED BY <2>1 DEF Frozen
<1>3. CASE v = calls[h].id /\ MayUpdate(calls[h])
  BY <1>3 DEF MayUpdate, Frozen
<1> QED BY <1>2, <1>3

LEMMA SaveValidationFreezes ==
  ASSUME StrategyInv, NEW h \in Handlers, SaveValidation(h), NEW v \in DOMAIN versions
  PROVE  Frozen(v)
<1> DEFINE row == [versions[v] EXCEPT !.report = calls[h].report]
<1>1. versions[v] \in Version /\ versions \in Seq(Version)
  BY DEF StrategyInv, StrategyTyped
<1>2. row.rows = versions[v].rows /\ row.context = versions[v].context
  BY <1>1 DEF Version
<1>3. versions'[v] = row \/ versions'[v] = versions[v]
  BY <1>1 DEF SaveValidation
<1> HIDE DEF row
<1> QED BY <1>2, <1>3 DEF Frozen

LEMMA PublishCommitFreezes ==
  ASSUME StrategyInv, NEW h \in Handlers, PublishCommit(h), NEW v \in DOMAIN versions
  PROVE  Frozen(v)
<1> DEFINE c   == calls[h]
           row == MadePublic(versions[c.id])
<1>1. c.op = "commit" /\ versions \in Seq(Version)
  BY DEF PublishCommit, StrategyInv, StrategyTyped
<1>2. c.id \in DOMAIN versions /\ versions[c.id] \in Version
  BY <1>1 DEF StrategyInv, CallsAreOfVersions, Idle
<1>3. row.rows = versions[c.id].rows /\ row.context = versions[c.id].context
  BY <1>2, PublicRow
<1>4. versions' = versions \/ versions' = [Superseded(c.old) EXCEPT ![c.id] = row]
  BY DEF PublishCommit
<1> HIDE DEF row
<1>5. /\ DOMAIN Superseded(c.old) = DOMAIN versions
      /\ Superseded(c.old)[v].rows = versions[v].rows
      /\ Superseded(c.old)[v].context = versions[v].context
  BY <1>1, SupersededIsTyped
<1>6. versions'[v] = versions[v] \/ versions'[v] = Superseded(c.old)[v]
      \/ (v = c.id /\ versions'[v] = row)
  BY <1>2, <1>4, <1>5
<1> QED BY <1>3, <1>5, <1>6 DEF Frozen

LEMMA RetireWriteFreezes ==
  ASSUME StrategyInv, NEW h \in Handlers, RetireWrite(h), NEW v \in DOMAIN versions
  PROVE  Frozen(v)
<1>1. versions' = Superseded({calls[h].id}) /\ versions \in Seq(Version)
  BY DEF RetireWrite, StrategyInv, StrategyTyped
<1>2. versions'[v].rows = versions[v].rows /\ versions'[v].context = versions[v].context
  BY <1>1, SupersededIsTyped
<1> QED BY <1>2 DEF Frozen

\* The rows and the metadata of a version that is published or retired never
\* change again, whatever an editor had read before the write of an edit, and
\* however often it is validated, superseded or retired (updateDraft, publish,
\* retire; spec 012, FR-004), for any number of editors, versions and keys.
THEOREM PublicVersionsAreFrozen == StrategySpec => PublishedIsFrozen
<1>1. ASSUME StrategyInv, StrategyNext
      PROVE  \A v \in DOMAIN versions : Frozen(v)
  <2>1. CASE UNCHANGED versions
    BY <2>1 DEF Frozen
  <2>2. CASE \E key \in Contexts : CreateDraft(key)
    BY <1>1, <2>2, CreateDraftFreezes
  <2>3. ASSUME NEW h \in Handlers,
               EditWrite(h) \/ SaveValidation(h) \/ PublishCommit(h) \/ RetireWrite(h)
        PROVE  \A v \in DOMAIN versions : Frozen(v)
    BY <1>1, <2>3, EditWriteFreezes, SaveValidationFreezes, PublishCommitFreezes,
       RetireWriteFreezes
  <2> QED BY <1>1, <2>1, <2>2, <2>3 DEF StrategyNext, EditRows, EditMetadata, Validate,
             Publish, Retire, PublishRead, Supersede
<1>2. ASSUME StrategyInv, [StrategyNext]_svars
      PROVE  [\A v \in DOMAIN versions : versions[v].status # "DRAFT" =>
                /\ versions'[v].rows = versions[v].rows
                /\ versions'[v].context = versions[v].context]_versions
  BY <1>1, <1>2 DEF svars, Frozen
<1> QED BY <1>2, StrategyInductive, PTL DEF StrategySpec, PublishedIsFrozen
=============================================================================

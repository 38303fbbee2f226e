# A formal model of the poker platform

TLA+ specifications of the parts of this repository whose correctness depends on
order: the rules of a hand, the multiplayer table that players, their sockets and a
background job change at once, the lobby, and the services whose handlers read in one
query and write in another. The specifications are translated from the source,
model-checked by TLC on small instances, and the results that matter most are proved by
TLAPS for every value of the constants.

Paths below are relative to the repository's root. "Spec 003" and the like are the
documents under `specs/`.

## 1. The system

The backend (`backend/src`) is one Node.js process over one PostgreSQL database,
reached through Prisma. JavaScript runs one handler at a time, but every `await` lets
another one in, so a handler that reads, awaits and then writes interleaves with all
the others. Transactions run at READ COMMITTED: each statement sees what others
committed before it. The frontend (`frontend/src`) is a React client.

| Component | State it keeps | Operations | Talks to |
|---|---|---|---|
| Poker engine (`poker-engine/`) | none: functions on a `HandState` owned by the caller | `startHand`, `submitAction`, `abandonSeat`, `computeLegalActions` | called by local games, tables, trainer |
| Cards (`hand-evaluator.ts`, `deck.ts`) | none | best five of seven, comparing, shuffling | engine, equity |
| Multiplayer table (`modules/multiplayer`) | `MultiplayerTable`, `MultiplayerHand`, `TableParticipant`, `TableAction` rows | bootstrap, act, abandon, reconnect, heartbeat, disconnect, reap | engine, rooms, sockets |
| Table sockets (`multiplayer.socket.ts`) | the socket.io room, `tableRooms`, `activeConnections`, in memory | join, leave, heartbeat, action, abandon, disconnect; a reaper every 5 s | table; pushes snapshots to clients |
| Table page (`MultiplayerTablePage.tsx`) | the latest snapshot it accepted | load, join, act, abandon, recover | sockets, HTTP |
| Rooms (`modules/rooms`) | `PokerRoom`, `RoomMember`, `RoomInvitation` rows | create, join, leave, ready, invite, accept, decline, start, close | friends, table |
| Friends (`modules/friends`) | one row per pair of users | send, accept, reject, cancel, remove | rooms (who may be invited) |
| Strategy administration (`modules/strategy`) | versions, rows, reports, audit entries | create, edit, validate, publish, retire | trainer |
| Trainer (`modules/trainer`) | sessions, scenarios, decisions of a user | start, resume, decide, next, in a preflop and a postflop variant | engine, strategy, equity |
| Training at a table (`multiplayer.training.*`) | one session per table, enrolments, decisions | join, leave, record, show | table |
| Hand history (`modules/hand-history`) | histories by source, who may list and open each | publish, list, open, replay, remove, analyse | no caller publishes yet |
| Equity (`modules/equity`) | none | probabilities of hands and ranges | trainer |
| Accounts (`modules/auth`, `app.ts`) | users, the session store | register, log in, log out, rename | everything |
| Local games (`modules/local-games`) | one `HandState` per user, in memory | start, act, abandon | engine |

What is hard, and what makes each part correct:

- **Engine.** Long sequences of legal calls reach rare hands: several all-ins for
  different amounts, folds and departures between them, blinds that a stack cannot pay.
  Chips are neither created nor lost, side pots pay nobody more than it matched, a street
  ends exactly when everybody answered the last bet, a hand waits for a seat that has a
  decision to make, and ends.
- **Table.** Requests are retried, late and simultaneous; members leave between a check
  and the transaction that relies on it; a background job folds for absent players. At
  most one accepted action per state, decided on that state; a turn that belongs to
  somebody who can act; chips and eliminations right across hands; a turn that does not
  wait for ever for a player who is gone.
- **Sockets and page.** Presence lives in memory and in the database; heartbeats, joins
  and disconnections overlap; a restart loses the memory. Whoever stays is seen, changes
  reach every page in the room, and no page goes back.
- **Rooms and friends.** Every operation acts on rows it read earlier. Seats are unique,
  a room moves forward only, private rooms are entered by invitation, and a friendship
  stands for both sides or for neither.
- **Strategy, trainer, training, history, accounts.** Small protocols of several tabs or
  editors on rows read earlier: one active version for a key, what is published stays as
  it was, one scenario for one decision, one enrolment for one user, what was removed
  stays hidden, who logged out stays out.
- **Evaluator and equity.** Pure functions with edge cases: wheels, two straights, ties,
  blocked cards.

`PROJECT.json` lists each hazard at its line with the properties that would catch it.

## 2. Modules

| Module | What it is |
|---|---|
| `PokerEngine` | The engine as operators on a hand record; no variables |
| `PokerHand` | One hand under every sequence of actions and departures |
| `MultiplayerTable` | The rows of one table, their handlers, late and repeated requests, the clock, the reaper |
| `CommandLog` | What a table promises to those who send it commands; `MultiplayerTable` implements it |
| `LiveTable` | Sockets, heartbeats, broadcasts and pages of one started table |
| `Server` | The requests in progress, for the components below |
| `Friends`, `Rooms` | The lobby; `Rooms` extends `Friends`, whose rows it reads |
| `StrategyAdmin`, `Trainer`, `TableTraining`, `HandHistory`, `Accounts` | The services, each on rows of its own |
| `TrainerHands` | The hand inside a scenario of the trainer, played by `PokerEngine` |
| `HandEvaluator`, `Equity` | Pure computations on cards |
| `MCPokerHand` | A hand, and a table of three over several hands, for TLC |
| `MCMultiplayerTable`, `MCLiveTable`, `MCLobby` | Small instances for TLC |
| `MCServices` | Friends, rooms and the services, for TLC |
| `PokerEngineProofs` | Lemmas about sums, pots and winnings; the invariant of a hand, and that each call of the engine keeps it |
| `PokerHandProofs` | Theorems of one hand |
| `MultiplayerTableProofs` | Theorems of the rows of a table, that it implements `CommandLog`, and of the hands played at it |
| `LiveTableProofs`, `LobbyProofs`, `ServicesProofs` | Theorems of sockets and pages; of rooms and friends; of the services |
| `TrainerHandsProofs` | The loops of the trainer and the hands they make |
| `CardsProofs` | Theorems about cards: the order of hands, the evaluator, equities |

### PokerEngine and PokerHand

A `HandState` is a record of functions on the seats `1 .. N`. Each function of
`engine.ts`, `betting.ts` and `pots.ts` is an operator of the same name that takes a hand
and returns the hand the code leaves behind. Loops become quantifiers, and the sums are
recursive functions, never `RECURSIVE` operators, so that the proofs can use them. The loops
of the trainer are such functions too, over the number of calls made.

Two abstractions:

- *Cards.* Nothing reads a card before the showdown, and the showdown reads only how the
  hands compare. So the board is a number of cards, and a call that reaches a showdown
  returns the hand in round `"showdown"`; `Settle` resolves it for every order of the
  seats' strengths, ties included (`Ranks`). The code never stores a hand in that state.
- *Pots.* `computePots` walks sorted levels. Here a layer is keyed by the level that tops
  it: `Payers`, `Eligible`, `LayerSize` and `IsPot` say what the loop computes for it.

`PokerHand` has two actions, `Submit` and `Leave` (`abandonSeat`), the two calls that the engine's owners
make. Each is the whole call, with the betting, the streets it skips and the awards. A hand
starts with any stacks in which two seats have chips, and with the button on one of
them, which is what both callers guarantee.

### MultiplayerTable and CommandLog

| Variable | Code |
|---|---|
| `room`, `table`, `handRow`, `participants`, `actions` | the rows of `schema.prisma` that the service reads and writes |
| `sent` | requests that clients sent; any of them may be delivered late, several times, in any order |
| `admitted`, `leaving` | calls of `act` and `abandon` that passed `assertStartedRoomMember` and wait for the row lock |
| `reaping` | calls of `act` the reaper is about to make from what it read |

The transactions of `act` and `abandon` lock the table row first, so each is one step:
`CommitRefused`, `CommitIllegal` and `CommitAccepted`, and `Abandon`. What precedes the lock
is a step of its own (`Admit`, `AdmitAbandon`), because the membership it checks may be gone
when the lock is granted. The reaper's pass is split the same way: `Reap` reads, `Admit` and
`Commit` act, and passes may overlap, as they do when one takes longer than five seconds.
Presence (`Connect`, `Disconnect`, `GraceExpires`) is what the socket handlers write. The
membership check and the write of `Connect` are one step: the write has its own guard,
`eligibleForNextHand`, and a late one can at most mark a participant of a closed room online.
A time is abstracted to whether the grace period has run: `never` (null), `recent`, `expired`.
`ProjectTable` is what `multiplayer.projection.ts` shows a participant of a hand: whether it
is offered actions, and whose cards it sees.

`CommandLog` is the abstract specification. It knows a numbered state, whether the table is
open, who has not left, the commands under way and the commands applied. Its steps: a command
is asked for, for the state the table is at; one that was refused may be forgotten; one is
applied to the very state it was asked for, once; somebody departs, once, and may close the
table. `MultiplayerTable!Log` is the refinement mapping: the numbered state is the table's
version, the commands under way are those in `sent`, `reaping` and `admitted`, and the log is
the accepted rows. Everything the handlers do between their steps, hands included, is a
stutter or a departure of the log.

Left out: two callers racing to create the table, which a unique index decides; the cause
sent with a broadcast; the reaper over several tables.

### LiveTable

| Variable | Code |
|---|---|
| `version`, `members`, `online` | the table's `stateVersion`, the room's member rows, `connectionStatus = ONLINE` |
| `page` | each page: loading, open, closed, or left while it was loading; its connection and the version it shows |
| `outbox` | the socket events of a page on the way, in order |
| `inflight` | snapshots read by some handler and not yet shown; in no order, since a handler sends what it read when it gets to it |
| `handlers` | joins, marks, heartbeats, broadcasts and departures the server has in progress |
| `inRoom`, `tableRooms`, `active` | the three records of who is connected |
| `due` | history: the newest version committed while the page's socket was in the room |

A page loads by HTTP and joins by socket when the answer comes; a page left before that
joins all the same, after its leave (`MultiplayerTablePage.tsx:24`), and stays connected.
socket.io reconnects by itself with a new socket, and the page does not join again.
Handlers are cut at each `await`: `table:join` marks the user and reads a snapshot
(`JoinRead`), then enters the records and sends it (`JoinEnter`), though the socket may be
gone or the snapshot stale by then; `table:leave` and a disconnection count the socket out
at once and ask the database to mark the user when it was the last (`Mark`); a broadcast
collects the sockets (`Fetch`), then reads and sends for each (`Send`); `table:abandon`
commits (`AbandonCommit`), then takes the socket out and broadcasts (`AbandonQuit`).
A change of the table is broadcast (`Commit`) when it came by socket or from the reaper;
one that came by `POST /:roomId/table/actions` is not (`CommitQuietly`), and
`EveryChangeReaches` is what the code does not keep because of it. A departure, or an action
that ends a hand, may leave too few to play on: the room is then closed and all its member
rows deleted (`Departures`, `MoveOn(members)`), and a page that is sent the table after that
gets `table:error` instead. Whoever is no member may still send `table:join` and
`table:abandon`, which are refused. `Drop` is a failing network, `Restart` a process that ends
and comes back with empty memory, and the rows as they were. The events
`table:presence-changed`, a lost acknowledgement, and what becomes of a rejected pass of
the reaper are left out.

### Server, Friends and Rooms

`Server` keeps one record per request in progress: what it has read, and which step comes
next. `Begin` starts one, `Continue` and `Finish` move it on.

`Friends` has one row per request or friendship. Sending looks for a row of the pair, then
inserts; when the unique index refuses, the other row is looked up and resolved as if it
had been found at first. Accepting, rejecting, cancelling and removing read the row, then
write by its id, whatever it has become.

`Rooms` cuts each operation between the queries before its transaction, the queries in the
transaction that decide what is written, and the writes with the commit: `Join`,
`JoinSeat`, `JoinCommit`; `Leave`, `LeaveDelete`, `LeaveCommit`; `Ready`, `ReadyWrite`;
`Invite`, `InviteWrite`; `Decline`, `DeclineWrite`; `Start`, `StartCommit`; `Close`,
`CloseCommit`. Creating a room checks and writes the same thing and is one step. What holds
in spite of the gaps holds because of the unique indexes (`SeatIsFree`) and of the
conditional update of `startRoom` (`StillOpen`). What has neither is not kept: `closeRoom`
writes by the room's id alone and closes a room that was started since it was read, and a join
or a departure that found the room waiting changes the members of a started or closed one,
which FR-008 and FR-016 of spec 004 forbid. `StartedRoomsStay` states it and TLC refutes it;
`RoomsOnlyMoveForward` says what is left, and by which requests a started room may be closed.
`LeaveTable` is what the table of a started room does to the lobby's rows. The lobby's behaviour
is `LobbySpec`, of `members_belong`, `started_rooms` and the theorems; `MCServices` takes its two
parts, `FriendsInit` and `FriendsNext`, `RoomsInit` and `RoomsNext`, one at a time. The views
(`ToRoomView`, `GetRoomForViewer`, `PublicRooms`, `InvitedTo`) are what the properties speak
of. `cleanupStaleWaitingMembers` is called by nothing.

### The services

`StrategyAdmin`: an edit carries the revision it read, and its write asks for it again;
publishing reads the report, then its transaction reads the draft, looks up the active
versions of the same key, and commits, unless the unique index on the active key refuses.
The rows are abstracted to one set that passes validation. A version has a `context`, its
format, street, table size, stacks and blinds, which an edit changes and which decides whether
the rows pass (`TooSmall`), and a `key`, which is computed of the context when the draft is
created and never again (`strategy.admin.service.ts:78`). One active version for a key
(`OneActiveVersion`) is kept; one for a context (`OneActivePerContext`) is not.

`Trainer`: sessions walk through numbered scenarios. The preflop endpoints take any active
session of the user and the postflop endpoints only a postflop one, which is how a request
of one kind may move a session of the other. A unique index allows a user one active session
of either kind (`NoneActive`): creating a session when another request just created one
answers with that one (`CreateSession`), be it of the other kind, and the service shows it
(`trainer.service.ts:55`). The number of a next scenario is computed when the session is read,
and a unique index refuses it when it was taken meanwhile.

`TrainerHands`: the hands of these scenarios, with the code's own six seats of a hundred big
blinds: generated (`GenerateScenario`, `GeneratePostflopScenario`), decided (`DecideHand`)
and played on (`PlayOn`). `Context` and `HasEquity` say when a decision is graded with an
equity: with one opponent, which the generated hands never have (two before the flop, five
after it).

`TableTraining`: one session per table, one enrolment per user, and the decision that `act`
records in its own transaction. A session is read with its fifty latest decisions, of
everybody, and a trainee's are filtered from those (`Recent`, `Shown`). The six places are
counted before the enrolment is written, and who comes back after leaving is not counted at
all. In a room of seven to nine seats, which `rooms.validation.ts:13` allows, more than six
members may so be enrolled.

`HandHistory`: publication, removal, and what a player lists, opens, replays and is offered
by the analytics. Nothing in the repository publishes a hand, and its `analytics` snapshot
would be one for all the viewers; the figures are not modelled.

`HandEvaluator`: `Evaluate7` is the code's search over the 21 hands of five; `Claims` is the
reference, what the rules let five of the cards be called, written on the seven cards
directly. `Equity` counts whole shares of the pot instead of adding floating-point
fractions, and keeps the denominator the code divides by: the weight of all selections times
the runouts of all of them (`equity.engine.ts:71-75`). With one combo for each player, which
is what the trainer asks about, that is right, and `HoldingsShareThePot` says so. With more
than one combo in a request, blocked cards or none, the equities of its players sum to less
than the pot, although FR-002 of spec 007 promises ranges; the requests of the run have such
ranges, and the property excludes them.

`Accounts`: a session row is loaded before a handler runs and touched after it
(`resave: false`, `rolling: true`), so a request that was under way when its browser logged
out must not bring the row back (`Stored`). Sockets are outside this model: one that was
opened before the logout keeps the user it authenticated with until it disconnects, and
`LoggedOutStaysOut` does not speak of it.

`MCServices` composes friends, rooms and the services: `subject` picks the one an execution is
about, so that one run explores all of them without multiplying their states. The services
share no row. Rooms read the friends' rows in one place, where an invitation asks for a
friendship that stands (`Invite`); when rooms are looked at, two users are friends from the
start and stay so (`AreFriends`), which leaves every invitation possible that a friendship of
theirs ever allows.
`MCPokerHand` does the same with a hand and a table, and extends `PokerHand` and
`MultiplayerTable`; therefore the behaviour of a hand is `HandInit`, `HandNext` and `HandSpec`.

## 3. What is checked

| Run | Instance | Shows |
|---|---|---|
| `poker_hand` | a hand of 3 seats, stacks 0..4, every amount; or a table of 3 players of 2 chips, all-in or leave, 3 requests, 4 versions | chips accounted for and all paid; turns owed and always present; street prices; side-pot caps; beaten and tied hands; a hand ends. At the table: versions in step; the turn belongs to a member; open exactly while two play; no chips appear; who is out stays out |
| `table_requests` | 2 players of 4 chips, all-in, 3 requests, 5 versions, one player comes and goes, fair clock and reaper | one accepted action per state, decided on that state; unique rows; the table implements `CommandLog`; the turn of an expired player passes |
| `live_table` | one user with two pages, one event among a change (broadcast or not), a departure, a lost connection and a restart | sockets counted; views never go back; who stays is seen; what is broadcast reaches every page in the room |
| `services` | two of 3 users befriending each other, with two rows in turn; or rooms of two friends and a third user, a private and a public one of 2 seats; or one of the services; 2 requests at once | seats and memberships; rooms move forward; private rooms by invitation; friends exactly when both asked; one active version for a key, published versions frozen; one scenario per decision; one hero per hand; one review per action; what is removed stays hidden; gaps of a replay; logged out stays out; best five of seven; equities of known hands make up the pot |

Eight further runs each check one statement of the repository's documents, code or tests that
the code does not keep; `PROJECT.json` quotes the statement under "findings".

| Run | Statement | What TLC shows |
|---|---|---|
| `contributions_retained` | folded seats' contributions are retained (`pots.test.ts:45`) | chips above every live seat's contribution are in no pot |
| `absent_turn` | an absent player is folded after the grace period (spec 005, FR-011) | not one who never connected: it has no disconnection time |
| `turn_on_roster` | the started roster is authoritative (spec 005, FR-002) | seat numbers with a gap: the hand waits for a seat nobody has |
| `members_belong` | who is refused a room belongs "to an active room" (`rooms.service.ts:111`) | the host closes the room, and its members stay in it: no other room takes them |
| `started_rooms` | a started room cannot be closed, and keeps its roster (`rooms.service.ts:263`; spec 004, FR-016 and its state diagram) | a close that read the room before its start closes it |
| `every_change_reaches` | each accepted change reaches all connected members (spec 005, FR-008) | an action by `POST` is broadcast to nobody: a page in the room stays behind |
| `one_per_context` | one active version for a dataset, street, players and stacks (spec 012, FR-009) | a draft edited to another context keeps its key: two versions of one context are active |
| `decisions_legal` | a decision is within the limits stored in the scenario (spec 008, FR-004) | after the flop the limits are looked up under other names, and any bet is accepted |

### Bounds

- *Hand.* Three seats give a main pot and a side pot with a folded contributor, a tie with an
  odd chip, and a button that is neither blind. Four chips allow a blind that is short, exact
  or covered, a minimum raise, a short all-in, and three different contribution levels.
- *Table.* Three requests are enough for two rivals for one state and a late one. Deliveries
  are not bounded: a request stays in `sent` for ever. `MaxVersion` stops new requests,
  departures and folds, not those under way; four versions reach a second hand and a third.
  `Moves` and `Roaming` name the choices left to each run: requests to go all-in, accepted or
  refused, end a hand within one action per player; departures fold, and so does the reaper.
  The table of `poker_hand` starts with one big blind per player, so that hands are short
  and eliminations frequent; in `table_requests` the chips are four, so that a hand takes two
  actions and a stale request still finds its own hand. Liveness is checked on the whole graph of `table_requests`,
  about 227,000 states, where the reaper races requests, departures and reconnections.
- *Live table.* Two pages of one user are what it takes for one socket to go while another
  stays, and for two broadcasts to overtake each other. `MaxEvents` is one event that
  something outside the handlers brings about; each page loads, joins, beats and leaves
  besides, and one heartbeat of a page is on its way at a time.
- *Lobby.* Two requests at once are one that is overtaken and one that overtakes, and the
  second of a pair may be followed by others before the first goes on. With two seats, three
  users and three memberships, seats run out, the host leaves, a host that left comes back,
  and a third user takes a freed seat. Only the private room is `Lively` (invitations and
  readiness); `started_rooms` needs one room only. `MaxRequests` is two rows of a friendship
  in `services`, so that a friendship is asked for, ends and is asked for again, and one row in the two
  runs of `LobbySpec`, where friends come and go. The theorems have no such bounds.
- *Services.* Two versions with two edits each, in two contexts, of which one is a table too
  small to play at (`one_per_context` has the same); two sessions with four scenarios; three
  trainees for a list of two decisions; two browsers and three names, two of which differ in
  case only; one hand, three authors, events numbered to four. The trainer's hands are the
  code's own: six seats of a hundred big blinds, with amounts at and around the limits of
  zero, one and the whole stack. The fifteen cards of `LowDeck` make straights at the
  lower end of the ace and above, straight flushes, two triples, three pairs and six of a suit;
  with so few values the best hand is never a straight that ends with the ace, one pair or a
  high card. The theorem `BestOfSevenHolds` is about every seven cards. Equities are computed
  on a deck of twelve cards with shared and blocked cards. `subject` is one part at a time,
  which is sound because the services share no row (for friends and rooms, see section 2).

Symmetry is used in `services`, `members_belong` and `started_rooms`, over two users that no
constant tells apart and over handlers; the runs check no liveness. Deadlock is not checked:
a hand that is complete, a table that is closed and a service that used up its bounds stop.

### Fairness

`table_requests` and `absent_turn` assume `Fairness` of `MultiplayerTable`, weak fairness of
what the server drives: time passes (`GraceExpires`), the interval timer runs `Reap`, and an
`act` call that the reaper began is admitted and ends, because its awaits return
(`multiplayer.socket.ts:171`). The last conjunct names the steps that end such a call by their
effect on `admitted`: only `Commit` has it, and TLC evaluates it in a fraction of the time.
`live_table` and `every_change_reaches` assume `Fairness` of `LiveTable`: of the
server's handlers, of the delivery of what was sent on a connection that lives, and of the
heartbeat timer of an open page (`MultiplayerTablePage.tsx:57`). Nothing is assumed of players, of the
network, or of a lost connection coming back. Weak fairness is enough: each of these stays
enabled until it is taken or made irrelevant.

## 4. What is proved

TLAPS checks every theorem for all values of the constants: any number of seats, users,
rooms, editors, requests and chips, with no bound on the length of a behaviour. The
assumptions are named in the modules: `NAssumption` (at least two seats, as both callers
ensure), `MaxStackAssumption`, `RosterAssumption`, `BoundsAssumption`, `RoomAssumption` (a
room seats at least the two players it needs to start; `NoUser` is no user),
`FriendsBounds`, `StrategyBounds`, `AccountBounds`, `HistoryBounds`, `TrainingBounds`,
`TrainerBounds`, `AmountsAreChips` and `LiveAssumption` (the types of the constants, and that
the markers for no key, no rows and the like are none of the real ones), `SevensAreCards`
(sets of seven cards of the deck of 52) and `RequestsAreValid` (what `validateEquityRequest`
lets through). One theorem group has a hypothesis besides, `Gapless`, explained under "The
hands of a table".

**A hand** (`PokerEngineProofs`, `PokerHandProofs`): `TypeCorrect`, `StakesAreAccountedFor`,
`TurnExists`, `CurrentBetLargest`, `TurnOwesAnAnswer`, `OnePriceForAStreet`, `PotsArePaid`,
`SidePotsCap`, `BeatenSeatsLose`, `TiesAreSplit`, `BettingEnds`: every property of the run
`poker_hand`. They rest on one invariant, `HandInv`: a hand is `InPlay` or `Over`. What it
adds to the properties is what their preservation needs:

- A raise subtracts what the seat already put in from the total it asks for, so contributions
  stay natural numbers only because the current bet is at least every contribution
  (`BetIsLargest`), and a raise is a rise only because `minRaise > 0`.
- That the seat to act owes an answer is not inductive. It is the next one clockwise that can
  still bet, which does not say that it has not answered. `InTurnOrder` does: clockwise from
  the turn, the answers that are missing come before those given. A raise takes back all the
  answers, so it keeps the order.
- A blind may put a seat all-in and yet on turn, with nothing to owe. `BlindTurn` says that
  nobody is left to bet then, so its check runs the board out.
- That a street has one price (`OnePrice`) needs that it ends only when all have answered, and
  an answer is the current bet.
- `Over` keeps how the hand ended: `Awarded` to the last seat, or `ShownDown` for some order of
  the hands, with each stack equal to what the pots pay (`Winnings`). The four properties of
  showdowns are then facts about `Winnings`: the layers add up to the contributions
  (`PotsArePaid`), a layer takes at most its height from a seat (`SidePotsCap`), whoever is
  beaten is best of none of the layers it is eligible for (`BeatenSeatsLose`), and equals share
  the same layers and shares (`TiesAreSplit`).
- `BettingEnds` compares a hand before and after a call: streets left, chips in the stacks,
  then decisions and seats left.

The proof follows the code, one lemma for each function (`PutKeeps`, `ApplyActionKeeps`,
`AdvanceKeeps`, `SubmitActionKeeps`, `AbandonSeatKeeps`, `StartHandInv`), each using those of
the functions it calls. Sums are recursive functions, and an induction over them is written as
a smallest counterexample.

**A table** (`MultiplayerTableProofs`): `VersionsAgree`, `AtMostOneAction`,
`ActionsAreNeverStale`, `IndexesHold`. The invariant ties the counters to the rows: versions
recorded so far are at most the table's, so the next commit records a new one; the hand's
version equals the table's, so a request that matches the one was sent at the other; and the
sequence numbers of the current hand lie between minus the number of refusals and the moves
counted so far. This proof never opens the engine: it holds for whatever hand a call leaves.

**The refinement** (`MultiplayerTableProofs`): `TableImplementsLog`. The initial table maps to
the initial log, and each action of the table is one step of the log, or a stutter. The
invariant of the table gives what the log's guards ask for: a command that is applied was asked
for at the current state, and none was applied to it before.

**The hands of a table** (`MultiplayerTableProofs`): `RowsAreTyped`, `TurnIsAMembers`,
`TwoContestEveryHand`, `NoChipsAppear`, `WhoIsOutStaysOut`. Here the engine meets the rows. The
invariant `TInv` says that the hand of an open table is `InPlay`, in the sense of
`PokerEngineProofs`, from stacks that need not be known, with two seats left in it
(`HandPart`); that whoever has not folded is eligible for the next hand, whoever is eligible at
an open table is a member, and the seat of one that is out holds no more than its row says
(`SeatPart`); and that calls under way come from users and ask for numbers of chips, which is
all that may be said of them, since they may be late (`CallPart`). The call lemmas of the engine
then do the work: a commit replaces the hand by one that `Follows` it, and either the table
goes on, is dealt the next hand, or closes.

These theorems have the hypothesis `Gapless`: the `N` members sit in the seats `1 .. N`, that
is, nobody left the room before it started. Without it they are false, and the finding
`TurnIsOnTheRoster` shows why: `startHand` numbers the seats of a hand from one, whatever the
seat numbers of the members are, and waits for a seat nobody has. On a roster with a gap TLC
refutes `TurnBelongsToMember` and `TypeOK`, and `OpenWhileTwoPlay` asks for stacks of seats the
hand does not have; it finds no counterexample to `ChipsNeverAppear` and `EliminatedStayOut`,
but the invariant they are proved by holds the others. The runs `table_requests`,
`poker_hand` and `absent_turn` make the same choice. Nothing else is assumed of the roster.

**Sockets and pages** (`LiveTableProofs`): `RoomStaysCounted`, `ViewsOnlyGrow`.
`RoomIsCounted` is inductive: its exception, a leave under way for the socket, lasts exactly
until the step that takes the socket from the room. `ViewsNeverGoBack` needs that every
snapshot on its way has a number; that a page compares before it shows does the rest.
Neither is about what a page is told, so a change that is broadcast to nobody keeps both.

**The lobby** (`LobbyProofs`): `RoomsAreSeated`, `PrivateRoomsStayPrivate`,
`RoomsMoveForward`, `FriendsBothAsked`. `LobbyInv` has two halves, and each says what a
request that was overtaken may still rely on. None of the four says that a started room
stays as it was: `StartedRoomsStay` does, and is false. `RoomsMoveForward` bounds the damage:
a started room is closed by its table or by a `closeRoom` or `leaveRoom` that found it waiting,
and nothing opens a closed room or makes a started one wait.
For rooms (`RoomsInv`): the room of every request under way exists, and whoever a request is
about to seat, or to make the host, made the room or was invited to it. Neither is ever
undone (`Monotone`): rooms stay and invitations are answered, never erased. So the writes need
no second check for this, and seats and users stay unique by the indexes alone
(`MemberEnters`). That no room has more members than seats follows because seats differ
(`SeatsSuffice`); that an heir or a free seat exists whenever the code picks one, because a
set of numbers has a least one (`Least`). For friends (`FriendsInv`): a row that is about to be
accepted by its id is, as long as it exists, the one its receiver read, because ids are never
used again. The halves are joined by the fact that neither side's handlers work on the
other's requests (`FriendsLeaveRooms`, `RoomsLeaveFriends`).

**Versions of a strategy** (`ServicesProofs`): `AtMostOneActive`,
`PublicVersionsAreFrozen`. The invariant adds to `OneActiveVersion` that every request under
way is about a version there is. What the publishing transaction reads, the versions to
retire, is not part of it and need not be: the index compares the active keys after the
writes, and the keys agree with the statuses. It compares keys and not contexts, so the
theorem is about a key. What is frozen is the rows and the context of a version that is no
draft, because the only write of them asks for the status again; its validation report may
still be rewritten, which `saveValidation` does by the id.

**The services** (`ServicesProofs`), each by itself, as in `MCServices`:

- `LogoutIsFinal`. Only a login writes an account into a session's row.
- `RemovalIsFinal`. A hand that somebody had removed has a history, so the unique index
  refuses every later copy, and who may list it may open it and the other way round.
- `ReplayGapsAreExact`, for every set of numbers: a number that is missing lies between the
  greatest one below it and the least one above it, and in no other gap.
- `TrainingIsReviewedOnce`. A decision is about an action there was and belongs to the only row
  of who took it. That the decision sent to a trainee is its last needs an argument about the
  fifty that are read: if a later one were not among them, neither would be the one sent.
- `SessionsMoveOnOnce`. Sessions are created under the unique index of a user's active ones,
  each with a first scenario of its own. The scenarios of a session are numbered without a hole
  (`Numbered`), the session is at the last of them (`AtTheLast`), and a request under way carries the number
  after the scenario it has read (`ExerciseCall`). A number that was counted earlier is
  therefore taken, or is still the next.

**The hands of the trainer** (`TrainerHandsProofs`): `ScenariosAreKnown`, `HandHasOneHero`,
`LoopsStopWhereExpected`, for any number of seats, where the code has six. Nobody folds or
raises in the loops, so their hands are known: a street on which `k` seats have answered, all
of them with a call or a check, is `Mid(p, k)`. Each call of the engine takes `Mid(p, k)` to
`Mid(p, k + 1)` (`AnswerPassesTurn`), the last one to the next street with everybody in for the
same (`LastAnswerEnds`), and a loop that is a function of the number of calls is therefore at
`Mid(p, k)` after `k` of them (`CallsOneByOne`); the folds before the flop are followed in the
same way. What the user does is the only step that is not an answer of this kind; a bet or a
raise of its own makes the street `Decided`, which the others call. The invariant,
`ExerciseInv`, says that the stored hand is the button's before the flop or opens one of the
three streets on the seat after the button. TLC checked it as an invariant for two, three,
five and six seats.

**Cards** (`CardsProofs`): four theorems.

- `HandsAreOrdered` closes the abstraction of the showdown. The comparison of ranks from left
  to right is an order in which equals share a place (`BelowIsAnOrder`); numbering the places
  gives one of the `Ranks` that `PokerHand` quantifies over, and by it each layer of the pot
  has the winners the code computes from the cards.
- `BestOfIsBest`: a finite set of ranks has one that is beaten by none.
- `BestOfSevenHolds`. Five cards fall into six forms (`FormsAre`), because their groups, most
  frequent first, add up to five. `MadeFrom` and `MadeOf` then go both ways between five of the
  cards and a form with its values: what the cards have often enough can be taken out of them,
  and makes a hand of that form and no other. So what five of the cards are called is a claim
  (`FiveMayBeCalledThat`), and a claim is what some five are called, or less, when the same
  five happen to be a straight or a flush besides (`ClaimIsMet`). Only the flushes use that
  there are no more than seven cards: five of one suit and five of another would be ten.
- `HoldingsShareThePotHolds`. A sum over a set adds the elements in an order that nothing
  tells, so it is proved first that the order does not matter (`FoldInAnyOrder`): were it to,
  there would be a smallest such set, from which an element can be taken away. The shares of
  one game make up its pot, and counting the shares game by game or player by player is the
  same (`CountedTwice`).

**Only model-checked**:

- Liveness (`ExpiredTurnPasses`, `StayingIsSeen`, `BroadcastsReach`): fairness and ENABLED are
  out of the prover's reach.
- The eight statements that the code does not keep.

Every other property of a run is the subject of a theorem.

## 5. Not modelled, and the plan

Not modelled, and why:

- Creation of a table by two callers at once (`loadOrBootstrap`): a unique index decides, and
  the loser reads the winner's row.
- A pass of the reaper that ends early because one of several tables fails; the models have
  one table, and what the process does with the rejection is Node's.
- `table:presence-changed` events and lost acknowledgements: the first are merged into a page
  without a version, and the second make a page ask for the table again.
- Sockets in `Accounts`, and requests for ranges in what is stated of `Equity` (section 2).
- The store of local games and its page: every route runs to its end in one turn of the
  event loop, over one hand per user; the hand itself is `PokerHand`.
- Who is online: a query over the session store, without state of its own.
- How a decision is graded, the analytics figures, parsing and rounding of ranges:
  arithmetic on data without order or concurrency. Shuffling: one call to a random generator.
- The services `*.history.ts`, which wrap operations and which nothing calls; rendering,
  forms and request wrappers of the frontend.

Besides the findings, the models show departures from the documents that no run states by
itself:

- A host may be no longer a member of its room, when its heir left at the same time; the data
  model of spec 004 (`data-model.md:10`) has it a member.
- A room may start with members who became unready, or joined, after the check of `startRoom`
  (spec 004, FR-013). A member may be added to a room that was started or closed since the join
  read it (FR-008); of these `started_rooms` shows the first violation TLC meets, the close.
- Rows and metadata edited after a validation are published on its report, since an edit leaves
  the report as it is: against FR-007 and FR-008 of spec 012.
- More than six members may be enrolled in the training of a table, in rooms of seven to nine
  seats; spec 013 assumes two to six (`spec.md:149`).
- Who never comes back after a restart of the server stays `ONLINE`, has no disconnection time
  and is never folded, against FR-011 of spec 005.
- A page that socket.io reconnected is not in the room, and is told nothing until it asks
  (spec 005, FR-008 and SC-001).

Planned: several tables under one reaper, whose pass ends at the first that fails; then what
of the rows of a table is left to say on a roster with gaps.

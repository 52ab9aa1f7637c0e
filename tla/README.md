# A specification of BoredGamz

BoredGamz serves two-player games in the browser: a Go server keeps every table, queue and clock
in memory, and clients talk to it over one WebSocket per tab. These modules specify the parts of
the server where the order of events matters, check them with TLC on small instances, and prove
the invariants that carry the most weight for every value of the constants with TLAPS.

Run TLC with `tlc -workers 2 -config <cfg> <MC module>` and TLAPS with `tlapm <module>`. Source
paths below are relative to `src/server/core/`.

## The system

| Component | State | Operations | Talks to |
|---|---|---|---|
| arena room (`arena/room.go`) | status, turn, series, clocks, turn timer, draw offer, requests for a rematch | moves, draw offers, resignation, rematch, the timer's callback | called by socket loops and by the hub, under `room.mu` |
| arena hub (`arena/hub.go`, `disconnect.go`, `player.go`) | queues, rooms, the room of each player ID | join (resume, enqueue, pair), fallback pairing, leave, disconnect, grace, abandonment, cleanup | rooms; timers of the runtime; `hub.mu` before `room.mu` |
| arena sockets (`arena/socket.go`) | per connection: player, room, generation | the loop of `ServePlayer`, the poller `MatchWaiting` | hub and room |
| arena games (`arena/game.go`) | board | legal moves, lines, chess by a library | the room |
| poker table (`poker/table.go`) | stacks, bets, pot, phase, button | act, discard, start a hand | the poker room |
| poker room and hub (`poker/room.go`, `hub.go`, `socket.go`) | table, action timer, readiness; queues and rooms | messages, timer, join, leave, disconnect | as in the arena, without fallback |
| mahjong room, board, hub (`mahjong/`) | two boards, pairs, hints, round timer | pair, hint, rematch, timer | as in poker |
| identity (`identity/identity.go`) | none | account of a player ID | both kinds of hub |
| HTTP server, rate limiter, accounts, migrations (`../server`, `../api`, `../db`, `../utils`) | Postgres, signed tokens, windows per address | sign-up, log-in, refresh, upgrade to a WebSocket | the hubs |
| client (`src/app`) | saved seat, retry timer, last state | connect, reconnect with backoff, resume, leave | the sockets |

What is hard about it: every handler runs under a lock, but a request of the user is often several
critical sections; `time.AfterFunc` callbacks may already be waiting for the lock when the timer is
stopped; a tab may have several sockets at once, and several `Player` objects over time, under one
player ID; sockets drop at any moment; every absence has a grace period and every room a retention
time. The properties that make each part right:

- room: a round is ended once and by the right event, series are counted right, clocks are honest,
  a turn that is timed always has its deadline, offers and requests do not outlive their turn or
  round;
- hub: a player has one place, is never seated against their own account, finds their table again
  or is free of it, keeps the whole grace period, and does not wait beside somebody they could play;
- poker table: chips are conserved, nobody overpays, betting stops only when it may, whoever has
  the turn can act;
- poker room: every turn is timed, a callback acts in its own turn or not at all, whatever the room
  does is a move of the engine, a hand is lost without a showdown only by folding, by leaving, or by
  an absence from which the player has not come back;
- poker and mahjong hub: waiting players keep their place, seated ones find their table, tables that
  both have left go;
- mahjong: deals can be cleared, a pair counts once, duels go to the right player, timed rounds end.

The other parts are listed with their reasons under `components` in `PROJECT.json`, and every hazard
at its line under `hazards`.

## Modules

| Module | Of what |
|---|---|
| `Series` | abstract: a best-of-N series between two sides |
| `ArenaRoom` | `arena/room.go`; implements `Series` (`Promise == INSTANCE Series WITH ...`) |
| `ArenaHub` | `arena/hub.go`, `disconnect.go`, `player.go`, `socket.go` |
| `GridGame` | the rules of the grid games, `arena/game.go` |
| `Stakes` | abstract: what happens to the chips of a heads-up hand, whatever the streets and turns |
| `PokerTable` | the betting engine, `poker/table.go`; implements `Stakes` (`Promise == INSTANCE Stakes WITH ...`) |
| `Seating` | the sockets that reach one table of poker or mahjong: leaving, disconnecting and joining again of `hub.go`, `socket.go` |
| `PokerRoom` | `poker/room.go` around `PokerTable`, which it implements, with the connections of `Seating` |
| `PokerHub` | `poker/hub.go`, `socket.go`: queues, seats, spectators, cleanup |
| `PokerHands` | the ranking of hands, `poker/evaluate.go` |
| `MahjongBoard` | `mahjong/board.go`: layouts, free tiles, deals, reshuffles |
| `MahjongRoom` | `mahjong/room.go` on boards of `MahjongBoard`, with the connections of `Seating` |
| `ArenaRoomProofs`, `ArenaHubProofs`, `GridGameProofs`, `PokerTableProofs`, `PokerRoomProofs`, `PokerHubProofs`, `PokerHandsProofs`, `MahjongRoomProofs` | theorems about the module they are named after |
| `MCArenaRoom`, `MCArenaHub`, `MCPokerTable`, `MCPokerRoom`, `MCPokerHub`, `MCMahjongRoom` | instances for TLC |

Arena, poker and mahjong share no code, so each has its modules; only the hubs and socket loops of
poker and mahjong, which are the same text but for names, share `Seating` and `PokerHub`. The rooms
and the hub of a game are composed where they meet: `PokerRoom` and `MahjongRoom` extend `Seating`,
`ArenaHub` and `PokerHub` have the part of a room that the hub can see.

### ArenaRoom

A handler holds `room.mu` from start to end, so each is one action, with the refusals (which change
nothing) left out: `GridMove`, `ChessMove`, `ChessMoveTooLate` (the early return of
`HandleChessMove` when the clock has run out), `OfferDraw`, `AcceptDraw`, `DeclineDraw`, `Resign`,
`AskRematch` and `AgreeRematch` (the two halves of `ReadyRematch`), `Forfeit` (the hub's call when
a player leaves or stays away) and `Archive`. `FinishRound`, `StartNextRound`, `StopTimer` and
`ResetTimer` are the helpers of the same names.

The board is abstract. A move may decide the round once `Earliest` moves were made, ends it in a
draw when the last of the `Cells` is taken, and otherwise passes the turn. That this is what the
rules of the grid games do, with `Earliest` one less than twice the marks needed, is a theorem about
`GridGame` (`MoveOfARound`). For chess `Cells` bounds the length of a game, so a game of that length
must end.

A timer has three stages, as in Go's runtime: it is in `armed`; when due, `FireTimer` moves its
callback to `fired`, from where `Stop` cannot take it back; `TimeOut` or `StaleCallback` is the
callback once it has the lock. The callback carries what its closure captured, and `version` is
`timerVersion`, counted exactly as in the code (twice for a reset).
`elapsed` is the time since the turn started; `fair` is a history variable that charges the player
to move for every tick, independently of the code's bookkeeping.

### ArenaHub

A step is a critical section of `hub.mu`, of `room.mu` or of both, or what a goroutine does between
two. `JoinMatch` is `Resume`, `Enqueue` or `Pair`; `ReadGeneration` is separate since `ServePlayer`
reads the generation after the lock is released. `Matched` stands for each way in which a loop
learns its room, `Fallback` for the poller's pairing. A socket ends by `Drop` (the deferred
function's look-up of the room), then `LeaveWaiting` or `Disconnect`; leaving on purpose is `Leave`
under `room.mu`, then `LeaveHub` under `hub.mu`. `Expire`, `AbandonCheck` and `Cleanup` are the
callbacks of the three delays, which may come at any time after they were set. `EndRound`,
`AcceptDraw` and `ReadyRematch` are the part of a table the hub can see: its status.

A socket is numbered by the order of joining; a `Player` object bears the number of the socket
that made it and a `Room` that of its guest, so an old object of an ID is distinct from a new one,
as in the code. Setting `connected` to false and leaving the queue is one step here and two in the
code; in between nobody can be seated with the player, since joining and fallback test `connected`,
so the order makes no difference to anybody else. A check for abandonment that finds somebody does
nothing and stays possible, which only adds behaviours.

### PokerTable

The table is one record and the engine's helpers are operators from tables to tables, composed in
the code's order: `Pay`, `CollectBets`, `RunOut`, `Showdown`, `FinishByFold`, `AdvancePhase`,
`AfterAction`. The actions are the calls of `Act` (`Fold`, `Check`, `Call`, `RaiseTo`, `AllIn`),
`Discard`, the start of the next hand by the room (`NextHand`, with the new stacks once somebody is
bust) and a player who leaves or whose grace is over (`Leave`). Cards are abstract: who holds the
better hand is a choice, so every outcome of every showdown is explored. The check on a bust stack
at the start of `StartHand` cannot fail after `Restacked`.

`afterAction` starts with a case for an opponent who has folded, which no call reaches: a fold ends
the hand before `afterAction`. It is left out. The odd chip of a split pot (`Prize`) is kept, but
unmatched chips were just refunded, so the pot is twice the smaller bet (`NobodyOverpays`, proved)
and never odd: that line of `showdown` has no effect between two players.

`Stakes` says what all of this comes to for the chips: forced bets open a hand; a player puts more
in or gives up; hands are compared only when nobody has put in less than the opponent unless with
no chips left, and then what the opponent could not match goes back and the better hand takes the
rest. It has no streets, turns, raises, sizes of raises or pot. `Money` is the refinement mapping:
the stacks, what each player has put in during the hand (nothing once it is over), and whether the
hand is open. `table.go` has no such summary; it is the contract of its callers.

### PokerRoom

It extends `PokerTable` with the variables of the room. `Move` is a message "action" or "discard"
that the engine accepts, `AskNextHand` and `StartNextHand` the two halves of "next-hand", `Fire` and
`Timeout` the action timer before and after it has the lock. `timerVersion` only grows and is only
compared, so a callback carries the answer: `current` becomes false for all waiting callbacks when
the version is raised (`Outdated`), which keeps the state space finite.

A step of `Seating` that costs the hand is composed with `GiveUp`: `LeaveTable` (`Hub.Leave`),
`MoveOn` (joining another table) and `Expire` (the grace timer). The others are `Connection`.

### Seating

The connections of one table, after its room was opened. One player ID can have several `Player`
objects: `room.players[0]` and `[1]` are the objects 0 and 1, and any other is one that its ID left
behind in a queue when it joined again (`hub.go:92-100`). Such an object still counts as connected and
has seat 0, and its socket finds the room by the ID. Seat and owner of an object (`SeatOf`, `Owner`)
are thus different things, and what a socket does concerns its own object: `Drop` marks it, `Absent`
asks it, and the game is given up for its seat.

A socket is a call of `Serve`: it has joined (`Rejoin` for a later join of the same table), reads the
generation afterwards (`ReadGeneration`), serves, and returns. A player who leaves does so under
`room.mu` (`StandUp`) and loses the entry under `hub.mu` (`Unmap`). `Close` and `Unmap` include the
first test of `Disconnect`, which takes no lock, and `Drop` is the rest, which does not look at the
generation again. `CloseUnmatched` is a socket that returns without having found the room. The history
variable `back` notes on a grace timer that its player has joined again since the socket was gone;
the code has nothing like it, and the properties compare what the code does with it.

Left out are spectators, which `PokerHub` has, and what a left-over object does elsewhere: that it is
seated at another table in the meantime, or found there by another join.

### PokerHub

A step is a critical section or what happens between two, as in `ArenaHub`: `Resume`, `Enqueue`,
`Pair` and `Spectate` are `Join`, then `ReadGeneration`, `Matched`, `Drop` and the rest of `Serve`
and its deferred function, `Leave` and `LeaveHub`, `CheckLatest`, `Disconnect` and `Unwatch`, and
`Cleanup` for `cleanupRoomIfEmpty`. There is no fallback pairing. `mahjong/hub.go` and `socket.go`
are the same code but for names, so the module stands for both.

`Cleanup` is the callback of a delay of five minutes. It waits until no socket is between two of its
steps (`Settled`): these take no time against five minutes. It may come before other players have
done anything else.

### MahjongBoard and MahjongRoom

A tile is its position, and a board has the groups of its tiles and those that are left. Free tiles,
pairs, the first pair by index (`AvailablePair`) and the order of the tiles are those of the code.
Shuffles are choices: `removalOrder` returns some order in which the tiles can be taken off two by
two, whatever is on them, and the deal puts a pair of one group on each two; `Pairings` are the
orders' pairs, and `Clears` says whether there is one. The code gives up after 256 random walks; here it succeeds whenever it can, and
`LayoutsAreReducible` shows that it can on both layouts of the program. A reshuffle of what is left
may be impossible, and then `AfterRemoval` leaves the board without a pair, as the code does.

`RemovePair`, `RequestHint`, `AskRematch` and `Rematch` are the messages; `Fire` and `TimeUp` the
round timer, whose callback does not know its round. The connections are those of `Seating`; leaving
or a grace period that runs out gives up a duel (`Concede`).

### GridGame and PokerHands

Pure functions, without variables. `GridGame` has the modes with their dimensions, the cell a move
takes and the search for a line through it; `PokerHands` the rank of five cards, the comparison and
the best five of more. They are checked by assumptions, see Runs; that ranks compare as they should
is also proved. What `GridGame` means, a line of
marks on the board (`HasLine`) and a disc that cannot fall further (`Resting`), is defined beside it,
and that its functions compute this is also proved, for boards of every size.

## Runs

| Run | Checks | Instance |
|---|---|---|
| `arena_grid` | series arithmetic, order of play, fresh requests, refinement of `Series`, every round ends | best of 3, turns of 2, boards of 4 cells decided after 3 moves at the earliest |
| `arena_chess` | offers, honest clocks, a deadline for each turn, no early timeout, every round ends | clocks of 3, increment 1, first-move window 1, games of at most 5 moves, series of one round |
| `arena_hub` | one place per player, no self-play, entries lead to seats, archived rooms are empty, whole grace periods, waiting players meet | 2 players, 2 queues that fallback may pair, 3 connections |
| `poker_table` | chips, refunds, turn and bet to call, when betting may stop, refinement of `Stakes` | both modes, stacks of 6, blinds of 1 and 2 |
| `poker_room` | a timer for each turn, late callbacks, readiness, causes of forfeits, refinement of `PokerTable`, every hand ends | both modes, stacks of 2, two hands, one player who leaves, drops and comes back, and a left-over socket of the other |
| `poker_hub` | places are kept, abandoned tables go | 2 players, a public queue and a private code in two modes, 3 connections |
| `mahjong_room` | counting, solvable deals, hints, winners, timed rounds end | all modes, six tiles in three layers, two groups, one hint, one player who leaves or drops |
| `arena_late_draw`, `arena_final_clocks`, `arena_old_socket`, `arena_ghost`, `arena_cleanup` | one statement of the repository each, which the code does not keep: see Findings | the instances above, the first two with the chess one |

Each property of a passing run comes with a mutant: a plausible bug in one definition, kept beside
it, under which TLC finds the property violated.

The pure functions are compared with references by assumptions, which TLC evaluates before it
starts: `MCArenaRoom` that looking at the last move finds every line there is, exact or not, that
discs fall where they come to rest, and that every mode can be won; `MCPokerTable` that over all 7462
kinds of hands of the deck no two are worth the same, that rarer categories win, that the straights
are the straights, and on a part of the deck that the order within a category is the rules' and that
more cards never hurt; `MCMahjongRoom` that both layouts can be taken off and the set is large enough
for them.

### Bounds, and why they are enough

- `MaxVersion` (12, for chess 8) stops new rounds once `timerVersion` is past it. In the grid run
  this leaves room for a series with a drawn round in it and, when rounds are short, for a rematch
  after a decided series; the invariant that carries the argument is proved for every bound.
- `MaxLag` (1) is how late a callback may be seen. One unit past the deadline separates "due", "just
  overdue" and "not due"; more would only lengthen the wait.
- `Cells`, `Earliest`: both sides move twice, so a turn comes back to the same mark, which is what a
  stale callback needs to do harm; rounds can be won, lost, drawn and filled.
- `MaxSockets` (3): two connections seat two players; the third is a reload, a second tab state of
  the same player in another queue, or somebody who joins while another one leaves. Rooms, grace
  timers and cleanups follow from these. When the three are used up and closed the system has
  stopped, hence `CHECK_DEADLOCK FALSE`; an archived arena room has stopped likewise. The poker
  table can always go on and its run checks deadlock.
- `StartingStack` (6) is three big blinds: enough for a raise, a re-raise by a short all-in, a short
  call, and, after a hand was lost, a stack smaller than a blind.

- `poker_room`: two chips are one big blind, so the first bet is an all-in and the second hand starts
  with a short blind or new stacks; raises are the business of `poker_table`. Two hands let a
  callback, a request or a grace timer of the first one reach the second. `Movers` are object 1, the
  player in seat 1, and object 2, left behind in a queue by the player in seat 0. `MaxJoins` (2):
  one return, which may fall between any two steps of the earlier socket and of its grace timer, and
  after which two sockets can hold the newest generation. `MaxLeft` (1) object is left on purpose,
  since the hand is over then. `MaxFired` (1): one callback that waits is what can be late; the
  theorems are for any number of each.
- `poker_hub`: as in the arena. With four connections and the public queue alone (1,281,441 states)
  the properties hold as well.
- `mahjong_room`: a row of four tiles with two more on the third has covered tiles, tiles that are
  hemmed in, boards that need a reshuffle, and shapes that cannot be taken off in pairs, where it
  fails. The program's layouts have the same in larger numbers, and what is proved is for any layout.
  Only the player in seat 0 moves, and does not come back (`MaxJoins` is 1), since the boards need the
  states: the actions of `Seating` are all explored by `poker_room`, and `DuelEndsHaveCauses` is
  proved for any number of objects and joins.

Both queues of the arena hub's instance are of one game, because only then fallback can pair them; the
branch of `reconnectLocked` for another kind of game is in the module but not exercised by these
runs. No symmetry is used: the runs with temporal properties would not allow it.

### Fairness

Assumed is only what the Go runtime gives: time passes while a timer is pending, a due timer starts
its callback, a goroutine that waits for a mutex gets it, a ticker ticks, and a socket loop that is
on its way through its deferred function completes. Nobody has to move, answer, ask for a rematch,
send or close anything. Thus `RoundEnds` holds because of the turn timer alone and is claimed for
timed games only, and `WaitingPlayersMeet` because each waiting socket polls every 100 ms.
`WF` of a whole family of callbacks is enough there since each callback that runs leaves the set.
`HandEnds` and `TimedRoundEnds` hold by the action timer and the round timer alone (`Fire`, then
`Timeout` or `TimeUp`), in the first case turn after turn; a zen round has no timer and may last.
`AbandonedRoomsGo` needs that goroutines run on and cleanups fire (`Matched`, `Return`, `Cleanup`).
It excludes rooms with a socket that has never learned of them (`Astray`).

## Findings

Five runs end in a violation, each of something the repository says of itself (quoted in
`PROJECT.json`):

1. `arena_late_draw`: a draw offer left open when the round ends can be accepted afterwards, also
   after the series was decided. The status returns to `round-finished` without taking back the
   win. The theorems on the series are therefore stated for the grid games, which have no offers.
2. `arena_final_clocks`: the move that mates or stalemates is charged twice.
3. `arena_old_socket`: a socket still waiting in another queue belongs to an older `Player` object;
   after the tab was seated elsewhere it finds the new room by ID, and its closing costs the round
   of a player who is connected.
4. `arena_ghost`: an opponent joins between the deferred look-up of the room and leaving the queue;
   they are seated with a player who is gone, and no grace period runs.
5. `arena_cleanup`: the cleanup of a finished series is not cancelled by a rematch and removes the
   room while the next series is being played.

## Proofs

`ArenaRoomProofs` proves for every game, clock, bound and series length that the types hold
(`TypeCorrect`) and that `RoomInv` is inductive (`RoomInvariant`). `TurnIsTimed` and
`NoEarlyTimeout` are not inductive: they need to know where callbacks come from. `TimerInv` says
it. A pending timer is the current turn's; no waiting callback is newer than the timer; and one as
new as the timer excludes a pending timer and belongs to a turn that is used up. Because a reset
counts the version up, every step that ends a turn makes all waiting callbacks old, which is the
whole argument. `ClockPositive` rules out that a chess turn has no time left and hence no timer.
From these follow `OffersAwaitOpponents`, `RequestsDoNotOutlive`, `EveryTurnIsTimed` and
`TimeoutsAreDue`. Its second part adds that a chess clock runs exactly from the third move on
(`ClockInv`), from which `ClocksAreHonest` follows because a move charges and credits the clock as
time does, and that the turn follows from the parity of the moves (`TurnsAlternate`). For the grid games
`SeriesDecided` gives the series arithmetic and `SeriesRefined` the refinement of `Series`, step by
step: a finished round is a win or a draw of the abstract series, an agreed rematch the next round
or series, everything else stutters.

`ArenaHubProofs` proves for any number of connections, tabs and queues that `HubInv` is inductive.
Numbers refer to what was made (`PlayersOfSockets`, `RoomsOfPlayers`), and a waiting player is in
the queue of the key asked for (`QueuesOfPlayers`), so that leaving two queues by key leaves all of
them. With `SeatedDoNotWait` a player taken from a queue has no seat yet, hence a new room shares
none (`Grown`, for the actions that make players or open rooms; `Quiet` and `StillKeeps` for the
others). An entry never leads to an archived room (`EntriesSeat`), since archiving drops the entries
of all seats in the same critical section, and `ResumeKeeps` concludes that nobody comes back to
one. `OnePlaceOnly`, `NobodyPlaysThemselves`, `EntriesLeadToSeats` and `ArchivedStaysEmpty` follow.
`GraceIsWhole` adds that generations only grow (`GenerationsGrow`): no timer is newer than its
player (`TimersOld`), and one that acts is as new, hence the latest. The findings on the hub are
about other properties.

`PokerTableProofs` proves for all stacks and blinds (`SmallBlind <= BigBlind`) that every call
preserves `TableInv`: the table is either `Over`, with nothing bet and a refunded pot, or `Live`,
where pot and bets add up to what the players have put in (`Staked`), no bet exceeds the bet to call
(`Bounded`) and one equals it (`Level`). Conservation alone is not inductive, because the refund at
a showdown is computed from `totalBet`: only `Staked` makes it non-negative and even, and `Level` is
what makes a call pay no more than the opponent has bet. There is one lemma per helper of the
engine and one per action. `TypeCorrect`, `ConservesChips`, `PotAddsUp`, `CallEvens` and
`OverpaysNobody` follow. A raise is to any target up to all chips on the table.

A second part strengthens this to `TurnInv`: in a hand a player is all-in exactly when the stack
is empty and nobody has folded (`Able`); in a round of betting both players brought the same amount
into it (`Even`), and the turn is not with a player who is all-in. `Even` is what turns equal bets of
one round into equal bets of the hand. `CloseEarned` is the core: after an action the player has met
the bet or is all-in (`Answered`), so a round that closes on equal bets, or on the other player's
all-in, costs nobody more than it may. From `ClosesWell`, one lemma per helper and action, follow
`TurnsCanBeTaken`, `StreetsAreEarnedAlways` and `EverybodyActs`.

A third part proves that the engine implements `Stakes` (`TableKeepsPromise`). `ShowdownPays` turns
the refund, the division of the pot and the odd chip into what each player's stake is worth;
`AfterActionPays` says that what follows an action either leaves the stakes alone or is such a
comparison, and `BetPays` that hands are then compared by right, which is `ClosesWell` again. The
antes need an addition to the invariant, `DrawEarned`: with Five-Card Draw a hand can go from the
antes over the draw to the showdown without a bet, and who has put in less is then all-in
(`StartDrawPays`, because an ante below the other's is somebody's last chip). Each call of `Act` and
`Discard`, a leave and the start of a hand are one step of `Stakes`.

`PokerHandsProofs` proves of the ranking of hands that `CompareRanks` is a strict order in which any
two different ranks compare (`RanksAreOrdered`; `BeatsInTurn` is the loop over the kickers unrolled,
and kickers that count are never 0, so that a missing one cannot tie with one that is there). Of the
ranks of five of a player's cards one is hence unbeaten (`OneIsUnbeaten`: one that the fewest others
beat) and beats all the others, so the order in which `EvaluateBest` tries them is irrelevant
(`BestBeatsTheOthers`) and more cards never hurt (`MoreCardsNeverHurt`). That five cards have a rank
at all (`AllRanked`) is a hypothesis here, which `RarerHandsWin` checks for all kinds of hands.

`PokerRoomProofs` proves for any number of hands, objects, joins and callbacks that `RoomInv` is
inductive: the table is that of `TableInv`, the turn is timed, nobody is ready in a hand, and the
connections are those of `SeatingInv`. Every change of the table goes with a reset, and a reset
makes waiting callbacks `Outdated`, so that none is accepted (`ResetOutdates`, `ResetTimes`); this
gives `EveryTurnIsTimed` and `CallbacksComeInTime`. `RoomRefinesTable` maps each action of the room
to one of the engine or to a stutter (`StepOfTable`), and with it every theorem of
`PokerTableProofs` holds in every room, as `RoomKeepsPromise` does.

`ForfeitsHaveCauses` needs that coming back stops the timers of earlier absences, though none is
cancelled. `Generations` says why: no socket holds a later generation than its object has
(`Known`), and once the player of a grace timer has come back, the object's generation is later than
the timer's (`Past`). A `Drop` may find the player back already and mark one as gone who is not;
its timer then bears an older generation, and an `Expire` that acts finds its own (`NobodyBack`).
That the player has no open socket does not follow, and does not hold: see Known limits.

`PokerHubProofs` proves `PlacesAreKept` of the hub of poker and mahjong. A socket can lose its place
by its own account's other connections, so the invariant is about sockets that are `Alone`: such a
socket's player was made by its own join (`OwnPlayer`) and is connected (`Present`), so that no join
finds it gone and takes its place, and no cleanup finds its room abandoned and drops its entry
(`CleanupKeeps`); hence it waits in a queue or has an entry (`Queued`). `GoesKeeps` and `JoinKeeps`
say what is left to show of a step of the loop and of a join.

`MahjongRoomProofs` proves for every layout, every set of groups and every mode that `MahjongInv` is
inductive. A removed pair leaves two tiles fewer and gives two more to the player (`TwoFewer`,
`TwoMore`), which is `CountsEveryPair`; reshuffles only change groups. Hints in a duel stay good
because only the player's own pairs change the board (`HintsFit`), and `DuelEndsHaveCauses` follows
from `SeatingInv` as in poker; the lemmas about `Seating` are the same in both modules. Steps that leave the round alone are treated together (`Calm`).

Its first part proves what the boards rest on, by induction over the sets of tiles of a finite
layout. `SubsetRecursion` justifies the recursive functions: `Pairings` and `Clears` satisfy their
equations on every layout (`PairingsStep`, `ClearsStep`). Then whatever was dealt along a pairing has
an even number of tiles of every group (`FitsEven`) and can be taken off (`FitsClears`), and tiles
that come in pairs can be put onto any places that have a pairing (`DealFits`), which is why a
reshuffle succeeds whenever one is possible (`ReshuffleSucceeds`). `HintFound` says that a board with
a pair of free tiles has a first one, by the least index. `NobodyIsStuck` and `DealsCanBeCleared`
follow in every room. The first is not inductive: it needs that what
is left of a board comes in pairs (`BoardsEven`), or else a reshuffle could run out of partners.

`GridGameProofs` proves of boards with any number of rows and columns, and any mode whose dimensions
are sensible (`ModesArePlayable` for the program's six): the search from the last move finds every
line through it that is there, exact or not, and nothing else (`WinnerSeesLines`, from `LineIsSeen`
and `SeenIsLine`, which go over positions as rows and columns and count marks in both directions
up to the first other cell); a line that a move completes goes through that move, so looking there
is enough (`LastMoveDecides`); a disc comes to rest on the bottom or on another one
(`DiscsComeToRest`); and a board without an empty cell that nobody has won is a draw (`DrawIsFull`).
`Playing` is what is true of a board in a round, and `RoundStarts`, `RoundCanGoOn` and `MoveOfARound`
show that every legal move keeps it or ends the round, that there is a move while nobody has won, and
that no round is decided before `2 * Connect - 1` moves: a line has `Connect` marks of one player
(`LinesTakeMarks`) and the players take turns (`MarksAddUp`). `ArenaRoom` assumes no more than
this of a move.

The assumptions are the named ones on the constants (`RoomAssumption`, `HubAssumption`,
`TableAssumption`, `BoardAssumption`), which TLC evaluates in the runs. `BoardAssumption` asks for a
finite layout that is not empty; the program has two, both fixed in `board.go`, of which TLC computes
in `LayoutsAreReducible` that they can be taken off.

Only model-checked: liveness under fairness (`RoundEnds`, `WaitingPlayersMeet`, `HandEnds`,
`TimedRoundEnds`, `AbandonedRoomsGo`) and what an ENABLED would say, which are out of the prover's
reach; and what `EvaluateFive` computes, which sorts and joins sequences with operators that choose
or fold, so that a proof takes an induction over data. TLC goes over all kinds of hands of the deck
instead.
Every other property that a passing run checks is a theorem. The invariants were checked by TLC on
the instances above before they were proved.

## Known limits of the program

Met while modelling, and no run shows them, either because no statement of the repository
contradicts them or because what would be violated is outside the state of the modules:

- poker and mahjong: `Disconnect` compares generations before it takes `room.mu` and not again
  (`poker/hub.go:156`). A player who reconnects in between is marked as gone and is sent nothing until
  the next reconnect. The hand or duel is not lost by it (`ForfeitHasCause`, `DuelEndHasCause`).
- poker and mahjong: `Serve` reads the generation after `Join` has given up the lock (`socket.go:17`).
  After two joins in quick succession both sockets can hold the newest one. When the older closes,
  that counts as the player's disconnect, and after the grace period the hand or duel is lost with
  the newer socket open.
- poker and mahjong: a second tab takes the place in the queue over, and the first is not told
  (`poker/hub.go:98`). Its `Player` object still counts as connected, with seat 0. When the second
  tab is seated, the first one finds the room by the ID. If it then leaves, or closes and the grace
  period runs out, the hand or duel is lost by whoever sits in seat 0, the opponent included,
  although connected and with an open socket. It is the fault of `arena_old_socket`. `Seating` has
  this and the previous case among its behaviours. `ForfeitHasCause` and `DuelEndHasCause` hold all
  the same, because they claim less: an object with that seat has left, or has been given up after a
  grace period in which nobody joined through it again.
- poker and mahjong: `PlacesAreKept` is about accounts with one socket. An account with more can lose
  its place by the previous case and by the next one.
- poker and mahjong: a player of a table may watch another one, which replaces the entry of the seat
  (`poker/hub.go:70`); asking for a seat at the table one watches keeps one a spectator.
- poker: a player seated while the socket is closing has a seat and no socket, as in
  `arena_ghost` (`poker/socket.go:20`); a player who is ready for the next hand and leaves can
  still be dealt it (`ReadyIsFresh` is about requests that outlive their handshake, not about players who
  have gone since).
- mahjong: a reshuffle that fails leaves a board without a pair, and the error goes to one player
  without a broadcast (`mahjong/room.go:187`). Zen rounds then never end by themselves.
  `PairUnlessIrreducible` shows that this is the only way to be stuck.
- mahjong: on a shared board a hint stays on screen when the other player takes a tile of it, and a
  round timer's callback that waits while two players agree on a rematch ends the new round
  (`mahjong/room.go:108`).

## Not modelled

In all rooms: chat, snapshots and the channels they are sent through (a full channel drops a state).
In the arena: spectators, the `left` flag and chess positions, which are a library's. The deck's
shuffle is a choice. HTTP routing, accounts and tokens are single requests whose state is in
Postgres or in a token; the rate limiter is one counter per address under one lock; files, the
status page and the client's pages are I/O and presentation. Migrations of several starting
instances and the client's connection hook have control of their own and are left for later.

## Plan

Done: the rooms of the three games, both kinds of hub, the boards and the rankings, and the proofs
for all rooms and hubs, the poker table and its chips, the mahjong boards and the rules of the grid
games. Left, in order:

1. an abstract specification of seats (a connection owns a place, a place is lost by leaving or
   after the grace period only) for `ArenaHub` and `PokerHub`, with spectators in the arena and a run
   with two kinds of game;
2. the message channels, the client's connection hook and the migrations.
